---- MODULE Spec2Model ----
(***************************************************************************)
(* A model of the security engine of rust-Blockchain-Demo1                 *)
(* (src/src/security): the oracle price validator, the protocol rate       *)
(* limiter, the audit trail, the risk engine and the emergency response    *)
(* dispatcher.                                                             *)
(*                                                                         *)
(* Conventions                                                             *)
(*  - A HashMap is a function whose DOMAIN is the set of keys present.     *)
(*  - A Vec / VecDeque is a sequence, front first.                         *)
(*  - An f64 ratio is an exact rational <<num, den>> with den > 0, or an   *)
(*    integer number of tenths / hundredths where the source only uses     *)
(*    decimal literals.                                                    *)
(*  - Utc::now() is read from a clock variable of the component, which    *)
(*    never runs backwards; each handler is one atomic action.             *)
(*  - Calls that overlap are modelled separately: a task steps through a   *)
(*    call from one await point to the next (OracleTasks, AuditTasks).     *)
(*  - Data that the source reads but that no code in src/ fills (the       *)
(*    reference price feed, the compliance rule table, the emergency       *)
(*    procedures, funds and breakers) is configuration: Init draws it      *)
(*    from a bounded set that contains the value the constructors give.    *)
(***************************************************************************)
EXTENDS Integers, Sequences, FiniteSets, TLC

VARIABLES
    \* ---- OracleSecurity (oracle_security.rs)
    oracle_configs,      \* HashMap<Address, OracleConfig>
    price_history,       \* HashMap<Address, VecDeque<PriceData>>
    reference_prices,    \* HashMap<Address, Vec<PriceData>>
    circuit_breakers,    \* HashMap<Address, CircuitBreaker>
    oracle_now,          \* Utc::now(), in minutes
    oracle_calls,        \* number of validate_price / register_oracle calls made
    oracle_last,         \* what the last validate_price call did and returned
    \* ---- DeFiSecurity (defi_security.rs)
    protocol_configs,    \* HashMap<Address, DeFiProtocolConfig>
    rate_limiter,        \* RateLimiter {transaction_counts, value_sums, cooldowns}
    rate_now,            \* Utc::now(), in seconds
    rate_calls,          \* number of validate_protocol_interaction calls made
    rate_last,           \* what the last validate_protocol_interaction call did
    \* ---- AuditTrail (audit_trail.rs)
    audit_log,           \* VecDeque<AuditEntry>, oldest first
    indexed_entries,     \* HashMap<String, Vec<String>>: index key -> entry ids
    compliance_rules,    \* HashMap<String, ComplianceRule>
    audit_now,           \* Utc::now(), in days
    audit_calls,         \* number of logging calls made
    audit_last,          \* what the last logging call did
    \* ---- RiskEngine (risk_engine.rs)
    market_data,             \* HashMap<Address, VecDeque<MarketData>>: volatilities
    correlation_matrix,      \* RiskCalculator.correlation_matrix
    historical_assessments,  \* VecDeque<RiskAssessment>
    risk_calls,              \* number of assessments made
    risk_last,               \* what the last assessment returned
    \* ---- EmergencyResponse (emergency_response.rs)
    active_alerts,           \* HashMap<String, EmergencyAlert>
    emergency_procedures,    \* HashMap<String, EmergencyProcedure>
    response_history,        \* Vec<ResponseRecord>
    emergency_breakers,      \* circuit_breakers: HashMap<Address, CircuitBreaker>
    emergency_contacts,      \* Vec<EmergencyContact>
    auto_response_enabled,   \* bool
    emergency_funds,         \* HashMap<Address, U256>
    emergency_now,           \* Utc::now()
    emergency_calls,         \* number of calls and clock ticks made
    emergency_last,          \* what the last trigger_alert call did
    \* ---- calls in flight (tokio tasks sharing one component)
    oracle_tasks,            \* each task's position in its OracleSecurity call
    oracle_locks,            \* the four tokio RwLocks of OracleSecurity
    audit_tasks,             \* each task's position in its AuditTrail call
    \* ---- MevProtection (mev_protection.rs)
    recent_transactions,     \* VecDeque<TransactionPattern>, oldest first
    gas_price_oracle,        \* U256
    mev_now,                 \* Utc::now(), in seconds
    mev_calls,               \* number of calls and clock ticks made
    mev_last,                \* what the last analyze_transaction call returned
    \* ---- DeFiSecurity's threat detectors and position monitor
    monitored_positions,     \* PositionMonitor.positions: HashMap<Address, Position>
    liquidation_queue,       \* PositionMonitor.liquidation_queue: Vec<Address>
    defi_calls,              \* number of calls made
    defi_last,               \* what the last analyze_defi_transaction call returned
    \* ---- AuditTrail::query_entries
    query_last,              \* the last query and what it returned
    \* ---- AdvancedSecurityManager (mod.rs), under concurrent calls
    manager_config,          \* SecurityConfig
    threat_level,            \* ThreatLevel
    security_metrics,        \* SecurityMetrics
    manager_tasks,           \* each task's position in its call
    manager_locks,           \* the RwLocks config, threat_level, security_metrics
    manager_calls,           \* number of calls started
    verdict                  \* a score and what analyze_transaction makes of it

oracle_vars == <<oracle_configs, price_history, reference_prices,
                 circuit_breakers, oracle_now, oracle_calls, oracle_last>>

rate_vars == <<protocol_configs, rate_limiter, rate_now, rate_calls, rate_last>>

audit_vars == <<audit_log, indexed_entries, compliance_rules, audit_now,
                audit_calls, audit_last>>

risk_vars == <<market_data, correlation_matrix, historical_assessments,
               risk_calls, risk_last>>

emergency_vars == <<active_alerts, emergency_procedures, response_history,
                    emergency_breakers, auto_response_enabled, emergency_funds,
                    emergency_contacts, emergency_now, emergency_calls,
                    emergency_last>>

task_vars == <<oracle_tasks, oracle_locks, audit_tasks>>

\* the components modelled after the first five
mev_vars == <<recent_transactions, gas_price_oracle, mev_now, mev_calls,
              mev_last>>

defi_vars == <<monitored_positions, liquidation_queue, defi_calls, defi_last>>

query_vars == <<query_last>>

manager_vars == <<manager_config, threat_level, security_metrics,
                  manager_tasks, manager_locks, manager_calls, verdict>>

engine_vars == <<mev_vars, defi_vars, query_vars, manager_vars>>

\* what the actions of one of these components leave alone
mev_others == <<defi_vars, query_vars, manager_vars>>

defi_others == <<mev_vars, query_vars, manager_vars>>

query_others == <<mev_vars, defi_vars, manager_vars>>

vars == <<oracle_vars, rate_vars, audit_vars, risk_vars, emergency_vars,
          task_vars, engine_vars>>

(***************************************************************************)
(* Generic helpers                                                         *)
(***************************************************************************)
Last(s) == s[Len(s)]

RECURSIVE SumSeq(_)
SumSeq(s) == IF s = <<>> THEN 0 ELSE Head(s) + SumSeq(Tail(s))

RECURSIVE SumSquares(_)
SumSquares(s) == IF s = <<>> THEN 0 ELSE Head(s) * Head(s) + SumSquares(Tail(s))

\* slice::sort on integers
SortPrices(s) == SortSeq(s, LAMBDA a, b : a < b)

\* floor of the square root, by bisection on [lo, hi)
RECURSIVE ISqrtIn(_, _, _)
ISqrtIn(n, lo, hi) ==
    IF hi - lo <= 1 THEN lo
    ELSE LET mid == (lo + hi) \div 2
         IN IF mid * mid <= n THEN ISqrtIn(n, mid, hi) ELSE ISqrtIn(n, lo, mid)

ISqrt(n) == ISqrtIn(n, 0, 46341)

\* exact comparison of rationals <<num, den>>, den > 0
RatLE(a, b) == a[1] * b[2] <= b[1] * a[2]
RatGT(a, b) == a[1] * b[2] > b[1] * a[2]

(***************************************************************************)
(* OracleSecurity                                                          *)
(***************************************************************************)
Oracles == {"o1", "o2"}

\* candidate prices offered to validate_price
Prices == {2000, 2050, 2300, 2500, 3100}

\* bounds of the oracle model
MaxOracleCalls == 3
MaxOracleTime == 20
OracleTickStep == 5

\* program constants
BreakerCooldown == 10          \* Duration::minutes(10)
ReferenceWindow == 10          \* Duration::minutes(10)
VolatilityMinHistory == 10     \* price_history.len() < 10
VolatilityWindow == 10         \* .rev().take(10)
VolatilityThreshold == 100     \* 0.1, in thousandths
HistoryCapacity == 1000
CorrelationPlaceholder == 80   \* Ok(Some(0.8)), in hundredths
CorrelationMin == 70           \* c > 0.7, in hundredths

\* OracleConfig values a caller registers: max_deviation as a rational,
\* max_staleness in minutes
OracleConfigs == { [max_deviation |-> <<5, 100>>, max_staleness |-> 5] }

PriceData(price, ts) == [price |-> price, timestamp |-> ts]

\* CircuitBreaker as register_oracle creates it; trigger_time is an Option:
\* <<>> is None and <<t>> is Some(t)
ArmedBreaker == [triggered |-> FALSE, trigger_time |-> <<>>,
                 cooldown_period |-> BreakerCooldown]

\* outcomes of the chain provider during one validate_price call
ChainOutcomes == [block_number_ok : BOOLEAN, flash_loan_seen : BOOLEAN,
                  record_block_ok : BOOLEAN]

\* a breaker check that lost its `return Ok(true)`: it never reports Triggered
is_circuit_breaker_triggered_no_latch(breakers, o, now) ==
    [answer |-> FALSE, breakers |-> breakers]

\* is_circuit_breaker_triggered: the answer and the breakers map it leaves
is_circuit_breaker_triggered(breakers, o, now) ==
    IF o \in DOMAIN breakers /\ breakers[o].triggered
    THEN IF breakers[o].trigger_time # <<>>
            /\ now - breakers[o].trigger_time[1] >= breakers[o].cooldown_period
         THEN [answer |-> FALSE,
               breakers |-> [breakers EXCEPT ![o].triggered = FALSE,
                                             ![o].trigger_time = <<>>]]
         ELSE [answer |-> TRUE, breakers |-> breakers]
    ELSE [answer |-> FALSE, breakers |-> breakers]

\* a trip that also halves the breaker's cooldown
trigger_circuit_breaker_halving(breakers, o, now) ==
    IF o \in DOMAIN breakers
    THEN [breakers EXCEPT ![o].triggered = TRUE, ![o].trigger_time = <<now>>,
                          ![o].cooldown_period = @ \div 2]
    ELSE breakers

\* trigger_circuit_breaker
trigger_circuit_breaker(breakers, o, now) ==
    IF o \in DOMAIN breakers
    THEN [breakers EXCEPT ![o].triggered = TRUE, ![o].trigger_time = <<now>>]
    ELSE breakers

\* get_reference_prices: the stored observations of the last 10 minutes
get_reference_prices(refs, o, now) ==
    IF o \in DOMAIN refs
    THEN SelectSeq(refs[o], LAMBDA p : p.timestamp >= now - ReferenceWindow)
    ELSE <<>>

\* aggregate_prices with AggregationMethod::Median
aggregate_median(prices) ==
    IF prices = <<>> THEN 0
    ELSE LET v   == SortPrices([i \in 1..Len(prices) |-> prices[i].price])
             mid == Len(v) \div 2
         IN IF Len(v) % 2 = 0 THEN (v[mid] + v[mid + 1]) \div 2 ELSE v[mid + 1]

\* calculate_deviation: |price1 - price2| / price2, 1.0 when price2 is zero
calculate_deviation(price1, price2) ==
    IF price2 = 0 THEN <<1, 1>>
    ELSE <<IF price1 > price2 THEN price1 - price2 ELSE price2 - price1, price2>>

\* check_price_deviation
check_price_deviation(price, refs, max_deviation) ==
    IF refs = <<>> THEN TRUE
    ELSE RatLE(calculate_deviation(price, aggregate_median(refs)), max_deviation)

\* a staleness check that always answers fresh
check_price_staleness_always_fresh(history, o, now, max_staleness) == TRUE

\* check_price_staleness
check_price_staleness(history, o, now, max_staleness) ==
    IF o \in DOMAIN history /\ history[o] # <<>>
    THEN now - Last(history[o]).timestamp <= max_staleness
    ELSE TRUE

\* calculate_volatility: coefficient of variation sqrt(variance)/mean, which is
\* sqrt(n*sum(x^2) - sum(x)^2) / sum(x); in thousandths, rounded down
calculate_volatility(prices) ==
    IF Len(prices) < 2 THEN 0
    ELSE LET s == SumSeq(prices)
             a == Len(prices) * SumSquares(prices) - s * s
         IN (ISqrt(a) * 1000) \div s

\* check_volatility
check_volatility(history, o, price) ==
    IF o \in DOMAIN history
    THEN IF Len(history[o]) < VolatilityMinHistory THEN TRUE
         ELSE LET h      == history[o]
                  recent == [i \in 1..VolatilityWindow |-> h[Len(h) + 1 - i].price]
              IN calculate_volatility(Append(recent, price))
                     - calculate_volatility(recent) <= VolatilityThreshold
    ELSE TRUE

\* detect_flash_loan_attack: "err" when get_block_number fails; a detected
\* flash loan goes to validate_against_multiple_sources, which answers true
detect_flash_loan_attack(chain) ==
    IF ~chain.block_number_ok THEN "err" ELSE "true"

\* analyze_price_correlation, over get_price_correlation's placeholder
analyze_price_correlation(configs, o) ==
    LET others     == DOMAIN configs \ {o}
        correlated == {x \in others : CorrelationPlaceholder > CorrelationMin}
    IN IF others = {} THEN TRUE
       ELSE 2 * Cardinality(correlated) >= Cardinality(others)

\* the severity match of handle_invalid_price
SeverityOf(deviation) ==
    IF RatGT(deviation, <<1, 2>>) THEN "Critical"
    ELSE IF RatGT(deviation, <<1, 5>>) THEN "High"
    ELSE IF RatGT(deviation, <<1, 10>>) THEN "Medium"
    ELSE "Low"

\* a trip condition that forgot Severity::High
TripsBreaker_critical_only(severity) == severity = "Critical"

\* matches!(anomaly.severity, Severity::High | Severity::Critical)
TripsBreaker(severity) == severity \in {"High", "Critical"}

\* handle_invalid_price: the anomaly's severity and the breakers map it leaves
handle_invalid_price(breakers, o, price, refs, now) ==
    LET severity == SeverityOf(calculate_deviation(price, aggregate_median(refs)))
    IN [severity |-> severity,
        breakers |-> IF TripsBreaker(severity)
                     THEN trigger_circuit_breaker(breakers, o, now)
                     ELSE breakers]

\* record_price_data's write: push_back, then pop_front while over capacity
RECURSIVE TrimFront(_, _)
TrimFront(s, cap) == IF Len(s) > cap THEN TrimFront(Tail(s), cap) ELSE s

record_price_data(history, o, price, now) ==
    IF o \in DOMAIN history
    THEN [history EXCEPT ![o] = TrimFront(Append(@, PriceData(price, now)),
                                          HistoryCapacity)]
    ELSE history

\* a fail-open combination: any() in place of all()
IsValid_any(validations) == \E i \in 1..Len(validations) : validations[i]

\* validations.iter().all(|&v| v)
IsValid(validations) == \A i \in 1..Len(validations) : validations[i]

NoOracleCall == [oracle |-> "none", price |-> 0, result |-> "none",
                 validations |-> <<>>, severity |-> "none"]

\* register_oracle
RegisterOracle(o, config) ==
    /\ oracle_calls < MaxOracleCalls
    /\ oracle_calls' = oracle_calls + 1
    /\ price_history' = (o :> <<>>) @@ price_history
    /\ circuit_breakers' = (o :> ArmedBreaker) @@ circuit_breakers
    /\ oracle_configs' = (o :> config) @@ oracle_configs
    /\ oracle_last' = NoOracleCall
    /\ UNCHANGED <<reference_prices, oracle_now>>
    /\ UNCHANGED <<rate_vars, audit_vars, risk_vars, emergency_vars, task_vars, engine_vars>>

\* validate_price; result is "config_error" (Err, oracle not registered),
\* "breaker" (Ok(false) from the breaker check), "error" (Err from the chain
\* provider), "rejected" (Ok(false) after the checks) or "accepted" (Ok(true))
ValidatePrice(o, price, chain) ==
    /\ oracle_calls < MaxOracleCalls
    /\ oracle_calls' = oracle_calls + 1
    /\ UNCHANGED <<oracle_configs, reference_prices, oracle_now>>
    /\ UNCHANGED <<rate_vars, audit_vars, risk_vars, emergency_vars, task_vars, engine_vars>>
    /\ IF o \notin DOMAIN oracle_configs
       THEN /\ oracle_last' = [NoOracleCall EXCEPT !.oracle = o, !.price = price,
                                                   !.result = "config_error"]
            /\ UNCHANGED <<price_history, circuit_breakers>>
       ELSE
       LET config  == oracle_configs[o]
           breaker == is_circuit_breaker_triggered(circuit_breakers, o, oracle_now)
           refs    == get_reference_prices(reference_prices, o, oracle_now)
           v1      == check_price_deviation(price, refs, config.max_deviation)
           v2      == check_price_staleness(price_history, o, oracle_now,
                                            config.max_staleness)
           v3      == check_volatility(price_history, o, price)
           v4      == detect_flash_loan_attack(chain)
           v5      == analyze_price_correlation(oracle_configs, o)
           validations == <<v1, v2, v3, v4 = "true", v5>>
           invalid == handle_invalid_price(breaker.breakers, o, price, refs, oracle_now)
           call    == [NoOracleCall EXCEPT !.oracle = o, !.price = price]
       IN IF breaker.answer
          THEN /\ oracle_last' = [call EXCEPT !.result = "breaker"]
               /\ circuit_breakers' = breaker.breakers
               /\ UNCHANGED price_history
          ELSE IF v4 = "err"
          THEN /\ oracle_last' = [call EXCEPT !.result = "error"]
               /\ circuit_breakers' = breaker.breakers
               /\ UNCHANGED price_history
          ELSE IF ~IsValid(validations)
          THEN /\ oracle_last' = [call EXCEPT !.result = "rejected",
                                              !.validations = validations,
                                              !.severity = invalid.severity]
               /\ circuit_breakers' = invalid.breakers
               /\ UNCHANGED price_history
          ELSE IF ~chain.record_block_ok
          THEN /\ oracle_last' = [call EXCEPT !.result = "error",
                                              !.validations = validations]
               /\ circuit_breakers' = breaker.breakers
               /\ UNCHANGED price_history
          ELSE /\ oracle_last' = [call EXCEPT !.result = "accepted",
                                              !.validations = validations]
               /\ circuit_breakers' = breaker.breakers
               /\ price_history' = record_price_data(price_history, o, price, oracle_now)

\* the wall clock advances
OracleTick ==
    /\ oracle_now + OracleTickStep <= MaxOracleTime
    /\ oracle_now' = oracle_now + OracleTickStep
    /\ UNCHANGED <<oracle_configs, price_history, reference_prices,
                   circuit_breakers, oracle_calls, oracle_last>>
    /\ UNCHANGED <<rate_vars, audit_vars, risk_vars, emergency_vars, task_vars, engine_vars>>

\* OracleSecurity::new, or a validator whose source o1 has been registered and
\* has had ten observations of 2000 accepted in the first minute; the
\* reference feed of o1 is empty or holds observations with median 2000
StableHistory == [i \in 1..VolatilityMinHistory |-> PriceData(2000, 0)]

ReferenceFeeds == { <<>>,
                    <<PriceData(2000, 0)>>,
                    <<PriceData(1900, 0), PriceData(2100, 0)>>,
                    <<PriceData(2500, 0), PriceData(1000, 0), PriceData(2000, 0)>> }

OracleNew ==
    /\ oracle_now = 0
    /\ oracle_calls = 0
    /\ oracle_last = NoOracleCall
    /\ oracle_configs = << >>
    /\ price_history = << >>
    /\ circuit_breakers = << >>
    /\ reference_prices = << >>

OracleInit ==
    /\ oracle_now = 0
    /\ oracle_calls = 0
    /\ oracle_last = NoOracleCall
    /\ \/ /\ oracle_configs = << >>
          /\ price_history = << >>
          /\ circuit_breakers = << >>
          /\ reference_prices = << >>
       \/ /\ oracle_configs \in [{"o1"} -> OracleConfigs]
          /\ price_history \in [{"o1"} -> {<<>>, StableHistory}]
          /\ circuit_breakers = [o \in {"o1"} |-> ArmedBreaker]
          /\ reference_prices \in [{"o1"} -> ReferenceFeeds]

OracleNext ==
    \/ \E o \in Oracles, config \in OracleConfigs : RegisterOracle(o, config)
    \/ \E o \in Oracles, price \in Prices, chain \in ChainOutcomes :
          ValidatePrice(o, price, chain)
    \/ OracleTick

(***************************************************************************)
(* OracleSecurity under concurrent calls.  Each task runs one call at a    *)
(* time and stops at every `.await` on a lock or on the chain provider.    *)
(* A write guard of this file never outlives the statement or function     *)
(* body that took it and that body contains no further await, so taking    *)
(* it, running the body and dropping it is one step.  A read guard bound   *)
(* to a local (`configs` of validate_price, the three of get_statistics)   *)
(* is held until the call returns.  tokio::sync::RwLock is fair: waiters   *)
(* queue first-in first-out and a read is not granted past a queued write. *)
(***************************************************************************)
Tasks == {"t1", "t2"}

\* bound on the number of calls started
MaxTaskCalls == 2

\* prices offered by concurrent validate_price calls
TaskPrices == {2000, 3100}

LockNames == {"oracle_configs", "circuit_breakers", "price_history",
              "reference_prices"}

\* no guard held, nobody waiting
FreeLocks == [l \in LockNames |-> [readers |-> {}, queue |-> <<>>]]

NoOracleTask == [op |-> "idle", pc |-> "idle", oracle |-> "none", price |-> 0,
                 refs |-> <<>>, validations |-> <<>>, timestamp |-> 0,
                 result |-> "none", retrip |-> FALSE]

Queued(locks, l, t) ==
    \E i \in 1..Len(locks[l].queue) : locks[l].queue[i].task = t

\* it is t's turn on lock l: t heads the queue, or t has not queued and
\* nobody is waiting
AtTurn(locks, l, t) ==
    IF Queued(locks, l, t) THEN locks[l].queue[1].task = t
    ELSE locks[l].queue = <<>>

\* RwLock::read and RwLock::write can complete for t
CanAcquire(locks, l, t, mode) ==
    /\ AtTurn(locks, l, t)
    /\ mode = "write" => locks[l].readers = {}

\* the queue of l once t has been granted
Dequeued(locks, l, t) ==
    IF Queued(locks, l, t)
    THEN [locks EXCEPT ![l].queue = Tail(@)]
    ELSE locks

\* t now holds a read guard on l
Holding(locks, l, t) == [locks EXCEPT ![l].readers = @ \cup {t}]

\* every read guard t holds is dropped
Dropped(locks, t) == [l \in LockNames |-> [locks[l] EXCEPT !.readers = @ \ {t}]]

\* t cannot take l now and joins the queue
WaitFor(t, l, mode) ==
    /\ ~CanAcquire(oracle_locks, l, t, mode)
    /\ ~Queued(oracle_locks, l, t)
    /\ oracle_locks' = [oracle_locks EXCEPT
                           ![l].queue = Append(@, [task |-> t, mode |-> mode])]
    /\ UNCHANGED <<oracle_tasks, oracle_configs, price_history, circuit_breakers>>

\* the call of t returns: its guards are dropped
Return(t, locks, result) ==
    /\ oracle_tasks' = [oracle_tasks EXCEPT ![t] = [NoOracleTask EXCEPT
                                                      !.result = result]]
    /\ oracle_locks' = Dropped(locks, t)

\* t moves on inside its call
Goto(t, pc) == oracle_tasks' = [oracle_tasks EXCEPT ![t].pc = pc]

\* what no step of a call changes
TaskFrame ==
    /\ UNCHANGED <<reference_prices, oracle_now, oracle_last, audit_tasks>>
    /\ UNCHANGED <<rate_vars, audit_vars, risk_vars, emergency_vars,
                   engine_vars>>

\* a task starts a call
CallValidatePrice(t, o, price) ==
    /\ oracle_tasks[t].op = "idle"
    /\ oracle_calls < MaxTaskCalls
    /\ oracle_calls' = oracle_calls + 1
    /\ oracle_tasks' = [oracle_tasks EXCEPT ![t] =
           [NoOracleTask EXCEPT !.op = "validate_price", !.pc = "configs",
                                !.oracle = o, !.price = price]]
    /\ UNCHANGED <<oracle_locks, oracle_configs, price_history, circuit_breakers>>
    /\ TaskFrame

CallRegisterOracle(t, o) ==
    /\ oracle_tasks[t].op = "idle"
    /\ oracle_calls < MaxTaskCalls
    /\ oracle_calls' = oracle_calls + 1
    /\ oracle_tasks' = [oracle_tasks EXCEPT ![t] =
           [NoOracleTask EXCEPT !.op = "register_oracle", !.pc = "history",
                                !.oracle = o]]
    /\ UNCHANGED <<oracle_locks, oracle_configs, price_history, circuit_breakers>>
    /\ TaskFrame

CallGetStatistics(t) ==
    /\ oracle_tasks[t].op = "idle"
    /\ oracle_calls < MaxTaskCalls
    /\ oracle_calls' = oracle_calls + 1
    /\ oracle_tasks' = [oracle_tasks EXCEPT ![t] =
           [NoOracleTask EXCEPT !.op = "get_statistics", !.pc = "configs"]]
    /\ UNCHANGED <<oracle_locks, oracle_configs, price_history, circuit_breakers>>
    /\ TaskFrame

At(t, op, pc) == oracle_tasks[t].op = op /\ oracle_tasks[t].pc = pc

\* validate_price, `let configs = self.oracle_configs.read().await` and the
\* lookup of the source's config
ValidateConfigs(t) ==
    /\ At(t, "validate_price", "configs")
    /\ UNCHANGED oracle_calls
    /\ TaskFrame
    /\ \/ /\ CanAcquire(oracle_locks, "oracle_configs", t, "read")
          /\ UNCHANGED <<oracle_configs, price_history, circuit_breakers>>
          /\ LET locks == Dequeued(oracle_locks, "oracle_configs", t)
             IN IF oracle_tasks[t].oracle \in DOMAIN oracle_configs
                THEN /\ Goto(t, "breaker")
                     /\ oracle_locks' = Holding(locks, "oracle_configs", t)
                ELSE Return(t, locks, "config_error")
       \/ WaitFor(t, "oracle_configs", "read")

\* is_circuit_breaker_triggered
ValidateBreaker(t) ==
    /\ At(t, "validate_price", "breaker")
    /\ UNCHANGED oracle_calls
    /\ TaskFrame
    /\ \/ /\ CanAcquire(oracle_locks, "circuit_breakers", t, "write")
          /\ UNCHANGED <<oracle_configs, price_history>>
          /\ LET locks   == Dequeued(oracle_locks, "circuit_breakers", t)
                 breaker == is_circuit_breaker_triggered(
                                circuit_breakers, oracle_tasks[t].oracle, oracle_now)
             IN /\ circuit_breakers' = breaker.breakers
                /\ IF breaker.answer
                   THEN Return(t, locks, "breaker")
                   ELSE Goto(t, "reference") /\ oracle_locks' = locks
       \/ WaitFor(t, "circuit_breakers", "write")

\* get_reference_prices and check_price_deviation
ValidateReference(t) ==
    /\ At(t, "validate_price", "reference")
    /\ UNCHANGED oracle_calls
    /\ TaskFrame
    /\ \/ /\ CanAcquire(oracle_locks, "reference_prices", t, "read")
          /\ UNCHANGED <<oracle_configs, price_history, circuit_breakers>>
          /\ LET o    == oracle_tasks[t].oracle
                 refs == get_reference_prices(reference_prices, o, oracle_now)
                 v1   == check_price_deviation(oracle_tasks[t].price, refs,
                                               oracle_configs[o].max_deviation)
             IN oracle_tasks' = [oracle_tasks EXCEPT ![t].pc = "staleness",
                                                     ![t].refs = refs,
                                                     ![t].validations = <<v1>>]
          /\ oracle_locks' = Dequeued(oracle_locks, "reference_prices", t)
       \/ WaitFor(t, "reference_prices", "read")

\* check_price_staleness
ValidateStaleness(t) ==
    /\ At(t, "validate_price", "staleness")
    /\ UNCHANGED oracle_calls
    /\ TaskFrame
    /\ \/ /\ CanAcquire(oracle_locks, "price_history", t, "read")
          /\ UNCHANGED <<oracle_configs, price_history, circuit_breakers>>
          /\ LET o  == oracle_tasks[t].oracle
                 v2 == check_price_staleness(price_history, o, oracle_now,
                                             oracle_configs[o].max_staleness)
             IN oracle_tasks' = [oracle_tasks EXCEPT ![t].pc = "volatility",
                                     ![t].validations = Append(@, v2)]
          /\ oracle_locks' = Dequeued(oracle_locks, "price_history", t)
       \/ WaitFor(t, "price_history", "read")

\* check_volatility
ValidateVolatility(t) ==
    /\ At(t, "validate_price", "volatility")
    /\ UNCHANGED oracle_calls
    /\ TaskFrame
    /\ \/ /\ CanAcquire(oracle_locks, "price_history", t, "read")
          /\ UNCHANGED <<oracle_configs, price_history, circuit_breakers>>
          /\ LET v3 == check_volatility(price_history, oracle_tasks[t].oracle,
                                        oracle_tasks[t].price)
             IN oracle_tasks' = [oracle_tasks EXCEPT ![t].pc = "flash_loan",
                                     ![t].validations = Append(@, v3)]
          /\ oracle_locks' = Dequeued(oracle_locks, "price_history", t)
       \/ WaitFor(t, "price_history", "read")

\* detect_flash_loan_attack: the chain provider answers while `configs` is held
ValidateFlashLoan(t, chain) ==
    /\ At(t, "validate_price", "flash_loan")
    /\ UNCHANGED <<oracle_calls, oracle_configs, price_history, circuit_breakers>>
    /\ TaskFrame
    /\ LET v4 == detect_flash_loan_attack(chain)
       IN IF v4 = "err"
          THEN Return(t, oracle_locks, "error")
          ELSE /\ oracle_tasks' = [oracle_tasks EXCEPT ![t].pc = "correlation",
                                       ![t].validations = Append(@, v4 = "true")]
               /\ UNCHANGED oracle_locks

\* analyze_price_correlation takes oracle_configs.read() a second time; then
\* `is_valid` is known and handle_invalid_price finds the severity
ValidateCorrelation(t) ==
    /\ At(t, "validate_price", "correlation")
    /\ UNCHANGED oracle_calls
    /\ TaskFrame
    /\ \/ /\ CanAcquire(oracle_locks, "oracle_configs", t, "read")
          /\ UNCHANGED <<oracle_configs, price_history, circuit_breakers>>
          /\ LET v5 == analyze_price_correlation(oracle_configs,
                                                 oracle_tasks[t].oracle)
                 validations == Append(oracle_tasks[t].validations, v5)
                 severity == SeverityOf(calculate_deviation(
                                 oracle_tasks[t].price,
                                 aggregate_median(oracle_tasks[t].refs)))
                 locks == Dequeued(oracle_locks, "oracle_configs", t)
             IN IF IsValid(validations)
                THEN /\ oracle_tasks' = [oracle_tasks EXCEPT ![t].pc = "record",
                                             ![t].validations = validations]
                     /\ oracle_locks' = locks
                ELSE IF TripsBreaker(severity)
                THEN /\ oracle_tasks' = [oracle_tasks EXCEPT ![t].pc = "trigger",
                                             ![t].validations = validations]
                     /\ oracle_locks' = locks
                ELSE Return(t, locks, "rejected")
       \/ WaitFor(t, "oracle_configs", "read")

\* trigger_circuit_breaker, called by handle_invalid_price; retrip notes
\* that the breaker it trips was Triggered already
ValidateTrigger(t) ==
    /\ At(t, "validate_price", "trigger")
    /\ UNCHANGED oracle_calls
    /\ TaskFrame
    /\ \/ /\ CanAcquire(oracle_locks, "circuit_breakers", t, "write")
          /\ UNCHANGED <<oracle_configs, price_history>>
          /\ circuit_breakers' = trigger_circuit_breaker(
                 circuit_breakers, oracle_tasks[t].oracle, oracle_now)
          /\ oracle_tasks' = [oracle_tasks EXCEPT ![t] =
                 [NoOracleTask EXCEPT
                     !.result = "rejected",
                     !.retrip = /\ oracle_tasks[t].oracle \in DOMAIN circuit_breakers
                                /\ circuit_breakers[oracle_tasks[t].oracle].triggered]]
          /\ oracle_locks' =
                 Dropped(Dequeued(oracle_locks, "circuit_breakers", t), t)
       \/ WaitFor(t, "circuit_breakers", "write")

\* record_price_data builds the PriceData: `timestamp: Utc::now()` and then
\* `block_number: self.provider.get_block_number().await?`
ValidateRecord(t, chain) ==
    /\ At(t, "validate_price", "record")
    /\ UNCHANGED <<oracle_calls, oracle_configs, price_history, circuit_breakers>>
    /\ TaskFrame
    /\ IF chain.record_block_ok
       THEN /\ oracle_tasks' = [oracle_tasks EXCEPT ![t].pc = "push",
                                    ![t].timestamp = oracle_now]
            /\ UNCHANGED oracle_locks
       ELSE Return(t, oracle_locks, "error")

\* record_price_data appends under price_history.write()
ValidatePush(t) ==
    /\ At(t, "validate_price", "push")
    /\ UNCHANGED oracle_calls
    /\ TaskFrame
    /\ \/ /\ CanAcquire(oracle_locks, "price_history", t, "write")
          /\ UNCHANGED <<oracle_configs, circuit_breakers>>
          /\ price_history' = record_price_data(price_history,
                 oracle_tasks[t].oracle, oracle_tasks[t].price,
                 oracle_tasks[t].timestamp)
          /\ Return(t, Dequeued(oracle_locks, "price_history", t), "accepted")
       \/ WaitFor(t, "price_history", "write")

\* register_oracle: three inserts, each under its own write guard
RegisterHistory(t) ==
    /\ At(t, "register_oracle", "history")
    /\ UNCHANGED oracle_calls
    /\ TaskFrame
    /\ \/ /\ CanAcquire(oracle_locks, "price_history", t, "write")
          /\ UNCHANGED <<oracle_configs, circuit_breakers>>
          /\ price_history' = (oracle_tasks[t].oracle :> <<>>) @@ price_history
          /\ Goto(t, "breaker")
          /\ oracle_locks' = Dequeued(oracle_locks, "price_history", t)
       \/ WaitFor(t, "price_history", "write")

RegisterBreaker(t) ==
    /\ At(t, "register_oracle", "breaker")
    /\ UNCHANGED oracle_calls
    /\ TaskFrame
    /\ \/ /\ CanAcquire(oracle_locks, "circuit_breakers", t, "write")
          /\ UNCHANGED <<oracle_configs, price_history>>
          /\ circuit_breakers' =
                 (oracle_tasks[t].oracle :> ArmedBreaker) @@ circuit_breakers
          /\ Goto(t, "configs")
          /\ oracle_locks' = Dequeued(oracle_locks, "circuit_breakers", t)
       \/ WaitFor(t, "circuit_breakers", "write")

RegisterConfig(t, config) ==
    /\ At(t, "register_oracle", "configs")
    /\ UNCHANGED oracle_calls
    /\ TaskFrame
    /\ \/ /\ CanAcquire(oracle_locks, "oracle_configs", t, "write")
          /\ UNCHANGED <<price_history, circuit_breakers>>
          /\ oracle_configs' = (oracle_tasks[t].oracle :> config) @@ oracle_configs
          /\ Return(t, Dequeued(oracle_locks, "oracle_configs", t), "registered")
       \/ WaitFor(t, "oracle_configs", "write")

\* get_statistics: three read guards, all held until the call returns
StatisticsConfigs(t) ==
    /\ At(t, "get_statistics", "configs")
    /\ UNCHANGED oracle_calls
    /\ TaskFrame
    /\ \/ /\ CanAcquire(oracle_locks, "oracle_configs", t, "read")
          /\ UNCHANGED <<oracle_configs, price_history, circuit_breakers>>
          /\ Goto(t, "history")
          /\ oracle_locks' = Holding(Dequeued(oracle_locks, "oracle_configs", t),
                                     "oracle_configs", t)
       \/ WaitFor(t, "oracle_configs", "read")

StatisticsHistory(t) ==
    /\ At(t, "get_statistics", "history")
    /\ UNCHANGED oracle_calls
    /\ TaskFrame
    /\ \/ /\ CanAcquire(oracle_locks, "price_history", t, "read")
          /\ UNCHANGED <<oracle_configs, price_history, circuit_breakers>>
          /\ Goto(t, "breakers")
          /\ oracle_locks' = Holding(Dequeued(oracle_locks, "price_history", t),
                                     "price_history", t)
       \/ WaitFor(t, "price_history", "read")

StatisticsBreakers(t) ==
    /\ At(t, "get_statistics", "breakers")
    /\ UNCHANGED oracle_calls
    /\ TaskFrame
    /\ \/ /\ CanAcquire(oracle_locks, "circuit_breakers", t, "read")
          /\ UNCHANGED <<oracle_configs, price_history, circuit_breakers>>
          /\ Return(t, Dequeued(oracle_locks, "circuit_breakers", t), "statistics")
       \/ WaitFor(t, "circuit_breakers", "read")

\* the steps task t can take inside the call it is running
OracleTaskStep(t) ==
    \/ ValidateConfigs(t)
    \/ ValidateBreaker(t)
    \/ ValidateReference(t)
    \/ ValidateStaleness(t)
    \/ ValidateVolatility(t)
    \/ \E chain \in ChainOutcomes : ValidateFlashLoan(t, chain)
    \/ ValidateCorrelation(t)
    \/ ValidateTrigger(t)
    \/ \E chain \in ChainOutcomes : ValidateRecord(t, chain)
    \/ ValidatePush(t)
    \/ RegisterHistory(t)
    \/ RegisterBreaker(t)
    \/ \E config \in OracleConfigs : RegisterConfig(t, config)
    \/ StatisticsConfigs(t)
    \/ StatisticsHistory(t)
    \/ StatisticsBreakers(t)

\* the wall clock advances while calls are in flight
OracleTaskTick ==
    /\ oracle_now + OracleTickStep <= MaxOracleTime
    /\ oracle_now' = oracle_now + OracleTickStep
    /\ UNCHANGED <<oracle_configs, price_history, reference_prices,
                   circuit_breakers, oracle_calls, oracle_last>>
    /\ UNCHANGED <<rate_vars, audit_vars, risk_vars, emergency_vars, task_vars, engine_vars>>

\* no call in flight
OracleTasksNew ==
    /\ oracle_tasks = [t \in Tasks |-> NoOracleTask]
    /\ oracle_locks = FreeLocks

\* a validator with nothing registered, or with source o1 registered and a
\* reference feed of median 2000
OracleTasksInit ==
    /\ oracle_now = 0
    /\ oracle_calls = 0
    /\ oracle_last = NoOracleCall
    /\ OracleTasksNew
    /\ \/ /\ oracle_configs = << >>
          /\ price_history = << >>
          /\ circuit_breakers = << >>
          /\ reference_prices = << >>
       \/ /\ oracle_configs \in [{"o1"} -> OracleConfigs]
          /\ price_history = [o \in {"o1"} |-> <<>>]
          /\ circuit_breakers = [o \in {"o1"} |-> ArmedBreaker]
          /\ reference_prices = [o \in {"o1"} |-> <<PriceData(2000, 0)>>]

OracleTasksNext ==
    \/ \E t \in Tasks, price \in TaskPrices : CallValidatePrice(t, "o1", price)
    \/ \E t \in Tasks : CallRegisterOracle(t, "o1")
    \/ \E t \in Tasks : CallGetStatistics(t)
    \/ \E t \in Tasks : OracleTaskStep(t)
    \/ OracleTaskTick


(***************************************************************************)
(* DeFiSecurity: validate_protocol_interaction and its rate limiter        *)
(***************************************************************************)
Senders == {"s1", "s2"}

\* tx.to: <<>> is None, otherwise Some(NameOrAddress)
\* p1 is the address callers register; nobody registers 0xdead
Protocols == {"p1"}
TxTargets == { <<>>,
               <<[kind |-> "name", at |-> "vault.eth"]>>,
               <<[kind |-> "address", at |-> "p1"]>>,
               <<[kind |-> "address", at |-> "0xdead"]>> }

\* tx.value
TxValues == {0, 50, 150}

\* tx.data: <<>> is None or fewer than four bytes, otherwise the hex selector
TxData == { <<>>, <<"a9059cbb">>, <<"f5298acf">> }

\* bounds of the rate-limiter model
MaxRateCalls == 4
MaxRateTime == 120
RateTickStep == 30

\* program constants, in seconds
MinuteWindow == 60             \* Duration::minutes(1)
HourWindow == 3600             \* Duration::hours(1)

\* DeFiProtocolConfig values a caller registers
ProtocolConfigs ==
    { [emergency_pause |-> FALSE, max_transaction_value |-> 100,
       allowed_functions |-> {"a9059cbb"},
       rate_limits |-> [max_transactions_per_minute |-> 2,
                        max_value_per_hour |-> 120, cooldown_period |-> 60]],
      [emergency_pause |-> FALSE, max_transaction_value |-> 50,
       allowed_functions |-> {},
       rate_limits |-> [max_transactions_per_minute |-> 1,
                        max_value_per_hour |-> 120, cooldown_period |-> 60]],
      [emergency_pause |-> TRUE, max_transaction_value |-> 100,
       allowed_functions |-> {},
       rate_limits |-> [max_transactions_per_minute |-> 2,
                        max_value_per_hour |-> 120, cooldown_period |-> 60]] }

\* entry(address).or_insert_with(Vec::new)
OrInsertEmpty(map, key) == IF key \in DOMAIN map THEN map ELSE (key :> <<>>) @@ map

RECURSIVE SumValues(_)
SumValues(s) == IF s = <<>> THEN 0 ELSE Head(s)[2] + SumValues(Tail(s))

\* the sender is inside a cooldown
InCooldown(limiter, address, now) ==
    address \in DOMAIN limiter.cooldowns /\ now < limiter.cooldowns[address]

\* check_rate_limits: the answer and the RateLimiter it leaves
check_rate_limits(limiter, address, value, limits, now) ==
    IF InCooldown(limiter, address, now)
    THEN [ok |-> FALSE, limiter |-> limiter]
    ELSE
    LET counts0  == OrInsertEmpty(limiter.transaction_counts, address)
        tx_times == SelectSeq(counts0[address], LAMBDA t : now - t <= MinuteWindow)
        counts   == [counts0 EXCEPT ![address] = tx_times]
    IN IF Len(tx_times) >= limits.max_transactions_per_minute
       THEN [ok |-> FALSE,
             limiter |-> [limiter EXCEPT
                 !.transaction_counts = counts,
                 !.cooldowns = (address :> now + limits.cooldown_period) @@ @]]
       ELSE
       LET sums0   == OrInsertEmpty(limiter.value_sums, address)
           history == SelectSeq(sums0[address], LAMBDA e : now - e[1] <= HourWindow)
           sums    == [sums0 EXCEPT ![address] = history]
       IN IF SumValues(history) + value > limits.max_value_per_hour
          THEN [ok |-> FALSE,
                limiter |-> [limiter EXCEPT !.transaction_counts = counts,
                                            !.value_sums = sums]]
          ELSE [ok |-> TRUE,
                limiter |-> [limiter EXCEPT
                    !.transaction_counts = [counts EXCEPT ![address] = Append(@, now)],
                    !.value_sums = [sums EXCEPT ![address] = Append(@, <<now, value>>)]]]

\* an allow-list check that forgot `is_empty`: an empty list blocks everything
FunctionBlocked_empty_list_blocks(config, data) ==
    /\ data # <<>>
    /\ data[1] \notin config.allowed_functions

\* !config.allowed_functions.contains(&selector) && !config.allowed_functions.is_empty()
FunctionBlocked(config, data) ==
    /\ data # <<>>
    /\ data[1] \notin config.allowed_functions
    /\ config.allowed_functions # {}

NoRateCall == [from |-> "none", to |-> <<>>, value |-> 0, data |-> <<>>,
               allowed |-> TRUE, blocked_by |-> "none"]

\* register_protocol
RegisterProtocol(p, config) ==
    /\ protocol_configs' = (p :> config) @@ protocol_configs
    /\ rate_calls < MaxRateCalls
    /\ rate_calls' = rate_calls + 1
    /\ rate_last' = NoRateCall
    /\ UNCHANGED <<rate_limiter, rate_now>>
    /\ UNCHANGED <<oracle_vars, audit_vars, risk_vars, emergency_vars, task_vars, engine_vars>>

\* what validate_protocol_interaction hands to its caller: Result<bool> is
\* Ok(allowed) and carries no reason; the text of tracing::warn! goes to the
\* log only
ReturnedToCaller(call) == [allowed |-> call.allowed, reason |-> <<>>]

\* a validation that consults the rate limiter before the pause, value-cap and
\* allow-list checks
ValidateProtocolInteraction_rate_first(from, to, value, data) ==
    /\ rate_calls < MaxRateCalls
    /\ rate_calls' = rate_calls + 1
    /\ UNCHANGED <<protocol_configs, rate_now>>
    /\ UNCHANGED <<oracle_vars, audit_vars, risk_vars, emergency_vars, task_vars, engine_vars>>
    /\ LET call == [from |-> from, to |-> to, value |-> value, data |-> data,
                    allowed |-> TRUE, blocked_by |-> "none"]
           deny(why) == [call EXCEPT !.allowed = FALSE, !.blocked_by = why]
       IN IF to = <<>> \/ to[1].kind = "name" \/ to[1].at \notin DOMAIN protocol_configs
          THEN /\ rate_last' = call
               /\ UNCHANGED rate_limiter
          ELSE
          LET config == protocol_configs[to[1].at]
              rate   == check_rate_limits(rate_limiter, from, value,
                                          config.rate_limits, rate_now)
          IN /\ rate_limiter' = rate.limiter
             /\ rate_last' = IF ~rate.ok THEN deny("rate")
                             ELSE IF config.emergency_pause THEN deny("pause")
                             ELSE IF value > config.max_transaction_value
                             THEN deny("value")
                             ELSE IF FunctionBlocked(config, data)
                             THEN deny("function")
                             ELSE call

\* validate_protocol_interaction; blocked_by names the check that returned
\* Ok(false): "pause", "value", "function" or "rate"
ValidateProtocolInteraction(from, to, value, data) ==
    /\ rate_calls < MaxRateCalls
    /\ rate_calls' = rate_calls + 1
    /\ UNCHANGED <<protocol_configs, rate_now>>
    /\ UNCHANGED <<oracle_vars, audit_vars, risk_vars, emergency_vars, task_vars, engine_vars>>
    /\ LET call == [from |-> from, to |-> to, value |-> value, data |-> data,
                    allowed |-> TRUE, blocked_by |-> "none"]
           deny(why) == [call EXCEPT !.allowed = FALSE, !.blocked_by = why]
       IN IF to = <<>> \/ to[1].kind = "name" \/ to[1].at \notin DOMAIN protocol_configs
          THEN /\ rate_last' = call
               /\ UNCHANGED rate_limiter
          ELSE
          LET config == protocol_configs[to[1].at]
              rate   == check_rate_limits(rate_limiter, from, value,
                                          config.rate_limits, rate_now)
          IN IF config.emergency_pause
             THEN rate_last' = deny("pause") /\ UNCHANGED rate_limiter
             ELSE IF value > config.max_transaction_value
             THEN rate_last' = deny("value") /\ UNCHANGED rate_limiter
             ELSE IF FunctionBlocked(config, data)
             THEN rate_last' = deny("function") /\ UNCHANGED rate_limiter
             ELSE IF ~rate.ok
             THEN rate_last' = deny("rate") /\ rate_limiter' = rate.limiter
             ELSE rate_last' = call /\ rate_limiter' = rate.limiter

\* the wall clock advances
RateTick ==
    /\ rate_now + RateTickStep <= MaxRateTime
    /\ rate_now' = rate_now + RateTickStep
    /\ UNCHANGED <<protocol_configs, rate_limiter, rate_calls, rate_last>>
    /\ UNCHANGED <<oracle_vars, audit_vars, risk_vars, emergency_vars, task_vars, engine_vars>>

\* DeFiSecurity::new
RateInit ==
    /\ rate_now = 0
    /\ rate_calls = 0
    /\ rate_last = NoRateCall
    /\ rate_limiter = [transaction_counts |-> << >>, value_sums |-> << >>,
                       cooldowns |-> << >>]
    /\ protocol_configs = << >>

RateNext ==
    \/ \E p \in Protocols, config \in ProtocolConfigs : RegisterProtocol(p, config)
    \/ \E from \in Senders, to \in TxTargets, value \in TxValues, data \in TxData :
          ValidateProtocolInteraction(from, to, value, data)
    \/ RateTick

(***************************************************************************)
(* AuditTrail: log_entry, its compliance rules and its retention policy    *)
(***************************************************************************)
\* bounds of the audit model
MaxAuditCalls == 3
MaxAuditTime == 400
AuditTickStep == 100

\* program constants; risk scores are in hundredths, values in ETH
default_retention_days == 90
high_risk_retention_days == 365
RetainRiskAbove == 70          \* risk_score > 0.7
HighValueThreshold == 100      \* 100 ETH
HighRiskThreshold == 80        \* risk score 0.8

\* ComplianceRule: rule_type with its argument, action, enabled
ComplianceRule(kind, arg, action, enabled) ==
    [rule_type |-> [kind |-> kind, arg |-> arg], action |-> action,
     enabled |-> enabled]

\* the two rules setup_compliance_rules inserts
DefaultRules ==
    ("high_value_transaction" :>
        ComplianceRule("TransactionValue", HighValueThreshold, "NotifyCompliance", TRUE))
    @@ ("high_risk_transaction" :>
        ComplianceRule("RiskScore", HighRiskThreshold, "RequireApproval", TRUE))

\* rule tables an installation is configured with; the first is AuditTrail::new
RuleTables ==
    { << >>,
      ("block_flagged" :> ComplianceRule("SecurityFlag", "sanctioned",
                                         "BlockTransaction", TRUE)),
      ("block_flagged" :> ComplianceRule("SecurityFlag", "sanctioned",
                                         "BlockTransaction", FALSE))
      @@ ("warn_value" :> ComplianceRule("TransactionValue", 100, "LogWarning", TRUE)),
      ("block_risk" :> ComplianceRule("RiskScore", 80, "BlockTransaction", TRUE))
      @@ ("report_gas" :> ComplianceRule("GasUsage", 20000, "GenerateReport", TRUE))
      @@ ("block_frequency" :> ComplianceRule("TransactionFrequency", 1,
                                               "BlockTransaction", TRUE)) }

\* Option::unwrap_or
UnwrapOr(opt, default) == IF opt = <<>> THEN default ELSE opt[1]

\* the match of check_compliance_rules on rule.rule_type
Violation(rule, entry) ==
    CASE rule.rule_type.kind = "TransactionValue" ->
            UnwrapOr(entry.value, 0) > rule.rule_type.arg
      [] rule.rule_type.kind = "RiskScore" ->
            UnwrapOr(entry.risk_score, 0) > rule.rule_type.arg
      [] rule.rule_type.kind = "SecurityFlag" ->
            rule.rule_type.arg \in entry.security_flags
      [] rule.rule_type.kind = "GasUsage" ->
            UnwrapOr(entry.gas_used, 0) > rule.rule_type.arg
      [] rule.rule_type.kind = "TransactionFrequency" -> FALSE

RuleBlocks_ignoring_enabled(rule, entry) ==
    Violation(rule, entry) /\ rule.action = "BlockTransaction"

\* the rule makes check_compliance_rules return Err
RuleBlocks(rule, entry) ==
    rule.enabled /\ Violation(rule, entry) /\ rule.action = "BlockTransaction"

\* check_compliance_rules: TRUE is Ok(()), FALSE is Err
check_compliance_rules(rules, entry) ==
    ~ \E name \in DOMAIN rules : RuleBlocks(rules[name], entry)

\* should_retain of apply_retention_policy
ShouldRetain(entry) ==
    UnwrapOr(entry.risk_score, 0) > RetainRiskAbove
        \/ entry.entry_type = "SecurityViolation"

\* a filter in place of the front-popping loop: every entry that is older
\* than the cutoff and not to be retained is dropped, wherever it stands
apply_retention_policy_filtering(log, now) ==
    SelectSeq(log, LAMBDA e : ~(e.timestamp < now - default_retention_days)
                                \/ ShouldRetain(e))

\* apply_retention_policy: pop the front while it is older than the cutoff
\* and not retained
RECURSIVE apply_retention_policy(_, _)
apply_retention_policy(log, now) ==
    IF log # <<>> /\ Head(log).timestamp < now - default_retention_days
                  /\ ~ShouldRetain(Head(log))
    THEN apply_retention_policy(Tail(log), now)
    ELSE log

\* indices.entry(key).or_insert_with(Vec::new).push(id)
IndexPush(indices, key, id) ==
    IF key \in DOMAIN indices
    THEN [indices EXCEPT ![key] = Append(@, id)]
    ELSE (key :> <<id>>) @@ indices

\* update_indices: by user, by contract, by entry type
update_indices(indices, entry) ==
    LET by_user == IF entry.user_address # <<>>
                   THEN IndexPush(indices, <<"user", entry.user_address[1]>>, entry.id)
                   ELSE indices
        by_contract == IF entry.contract_address # <<>>
                       THEN IndexPush(by_user,
                                <<"contract", entry.contract_address[1]>>, entry.id)
                       ELSE by_user
    IN IndexPush(by_contract, <<"type", entry.entry_type>>, entry.id)

\* log_entry: the answer, the log and the indices it leaves
log_entry(rules, log, indices, entry, now) ==
    IF ~check_compliance_rules(rules, entry)
    THEN [result |-> "blocked", log |-> log, indices |-> indices]
    ELSE [result |-> "ok",
          log |-> apply_retention_policy(Append(log, entry), now),
          indices |-> update_indices(indices, entry)]

AuditEntry(id, entry_type, now, user, contract, gas_used, value, risk_score, flags) ==
    [id |-> id, entry_type |-> entry_type, timestamp |-> now,
     user_address |-> user, contract_address |-> contract, gas_used |-> gas_used,
     value |-> value, risk_score |-> risk_score, security_flags |-> flags]

NoAuditCall == [result |-> "none", entry |-> <<>>]

\* generate_id: format!("audit_{}", Utc::now().timestamp_nanos()); one id
\* per clock reading
generate_id(now) == <<"audit", now>>

\* a logging call hands its entry to log_entry
AuditLog(entry) ==
    LET out == log_entry(compliance_rules, audit_log, indexed_entries, entry, audit_now)
    IN /\ audit_calls < MaxAuditCalls
       /\ audit_calls' = audit_calls + 1
       /\ audit_log' = out.log
       /\ indexed_entries' = out.indices
       /\ audit_last' = [result |-> out.result, entry |-> <<entry>>]
       /\ UNCHANGED audit_now
       /\ UNCHANGED <<oracle_vars, rate_vars, risk_vars, emergency_vars, task_vars, engine_vars>>

\* initialize: setup_compliance_rules, then the SystemStart entry
AuditInitialize ==
    /\ compliance_rules' = DefaultRules @@ compliance_rules
    /\ AuditLog(AuditEntry(generate_id(audit_now), "SystemStart", audit_now,
                           <<>>, <<>>, <<>>, <<>>, <<>>, {}))

\* log_transaction: receipt is "none" or "ok" (status 1 with gas_used 21000)
LogTransaction(from, to, value, receipt, risk_score) ==
    /\ AuditLog(AuditEntry(generate_id(audit_now),
                    IF receipt = "ok" THEN "TransactionExecuted" ELSE "TransactionFailed",
                    audit_now, from, to,
                    IF receipt = "ok" THEN <<21000>> ELSE <<>>,
                    value, risk_score, {}))
    /\ UNCHANGED compliance_rules

\* log_security_event
LogSecurityEvent(event_type, address, risk_score, flags) ==
    /\ AuditLog(AuditEntry(generate_id(audit_now), event_type, audit_now, address,
                           <<>>, <<>>, <<>>, <<risk_score>>, flags))
    /\ UNCHANGED compliance_rules

\* the wall clock advances
AuditTick ==
    /\ audit_now + AuditTickStep <= MaxAuditTime
    /\ audit_now' = audit_now + AuditTickStep
    /\ UNCHANGED <<audit_log, indexed_entries, compliance_rules, audit_calls,
                   audit_last>>
    /\ UNCHANGED <<oracle_vars, rate_vars, risk_vars, emergency_vars, task_vars, engine_vars>>

\* AuditTrail::new
AuditNew ==
    /\ audit_log = <<>>
    /\ indexed_entries = << >>
    /\ compliance_rules = << >>
    /\ audit_now = 0
    /\ audit_calls = 0
    /\ audit_last = NoAuditCall

\* AuditTrail::new followed by the installation's rule table
AuditInit ==
    /\ audit_log = <<>>
    /\ indexed_entries = << >>
    /\ compliance_rules \in RuleTables
    /\ audit_now = 0
    /\ audit_calls = 0
    /\ audit_last = NoAuditCall

\* transactions that get logged: value, receipt, risk score
LoggedTransactions ==
    { <<<<50>>, "ok", <<>>>>, <<<<150>>, "ok", <<50>>>>, <<<<50>>, "none", <<90>>>> }

\* security events that get logged: type, risk score, flags
LoggedSecurityEvents ==
    { <<"SecurityViolation", 50, {}>>, <<"SuspiciousActivity", 50, {}>>,
      <<"SuspiciousActivity", 90, {"sanctioned"}>> }

AuditNext ==
    \/ AuditInitialize
    \/ \E t \in LoggedTransactions :
          LogTransaction(<<"u1">>, <<"c1">>, t[1], t[2], t[3])
    \/ \E e \in LoggedSecurityEvents :
          LogSecurityEvent(e[1], <<"u1">>, e[2], e[3])
    \/ AuditTick

(***************************************************************************)
(* AuditTrail under concurrent calls.  log_transaction and                 *)
(* log_security_event build the entry (id and timestamp read the clock)    *)
(* and only then await log_entry, which appends under audit_log.write();   *)
(* a caller of the public log_entry builds the entry likewise before the   *)
(* call.  A task holds the entry it has built but not yet logged.          *)
(***************************************************************************)
\* the entry a task builds is handed to log_entry later
AuditTaskBuild(t, entry) ==
    /\ audit_calls < MaxTaskCalls
    /\ audit_calls' = audit_calls + 1
    /\ audit_tasks' = [audit_tasks EXCEPT ![t] = <<entry>>]
    /\ UNCHANGED <<audit_log, indexed_entries, compliance_rules, audit_now,
                   audit_last>>
    /\ UNCHANGED <<oracle_vars, rate_vars, risk_vars, emergency_vars,
                   oracle_tasks, oracle_locks, engine_vars>>

\* log_transaction up to its `self.log_entry(entry).await`
CallLogTransaction(t, from, to, value, receipt, risk_score) ==
    /\ audit_tasks[t] = <<>>
    /\ AuditTaskBuild(t, AuditEntry(generate_id(audit_now),
                    IF receipt = "ok" THEN "TransactionExecuted" ELSE "TransactionFailed",
                    audit_now, from, to,
                    IF receipt = "ok" THEN <<21000>> ELSE <<>>,
                    value, risk_score, {}))

\* log_security_event up to its `self.log_entry(entry).await`
CallLogSecurityEvent(t, event_type, address, risk_score, flags) ==
    /\ audit_tasks[t] = <<>>
    /\ AuditTaskBuild(t, AuditEntry(generate_id(audit_now), event_type, audit_now,
                                    address, <<>>, <<>>, <<>>, <<risk_score>>, flags))

\* a caller builds an AdminAction entry with an id of its own, stamps it with
\* the clock and calls log_entry
CallLogEntry(t, id, user) ==
    /\ audit_tasks[t] = <<>>
    /\ AuditTaskBuild(t, AuditEntry(id, "AdminAction", audit_now, user,
                                    <<>>, <<>>, <<>>, <<>>, {}))

\* log_entry runs for the entry task t holds
AuditTaskLog(t) ==
    /\ audit_tasks[t] # <<>>
    /\ LET out == log_entry(compliance_rules, audit_log, indexed_entries,
                            audit_tasks[t][1], audit_now)
       IN /\ audit_log' = out.log
          /\ indexed_entries' = out.indices
          /\ audit_last' = [result |-> out.result, entry |-> audit_tasks[t]]
    /\ audit_tasks' = [audit_tasks EXCEPT ![t] = <<>>]
    /\ UNCHANGED <<compliance_rules, audit_now, audit_calls>>
    /\ UNCHANGED <<oracle_vars, rate_vars, risk_vars, emergency_vars,
                   oracle_tasks, oracle_locks, engine_vars>>

\* the wall clock advances while calls are in flight
AuditTaskTick ==
    /\ audit_now + AuditTickStep <= MaxAuditTime
    /\ audit_now' = audit_now + AuditTickStep
    /\ UNCHANGED <<audit_log, indexed_entries, compliance_rules, audit_calls,
                   audit_last>>
    /\ UNCHANGED <<oracle_vars, rate_vars, risk_vars, emergency_vars, task_vars, engine_vars>>

\* no audit call in flight
AuditTasksNew == audit_tasks = [t \in Tasks |-> <<>>]

AuditTasksNext ==
    \/ \E t \in Tasks, e \in LoggedTransactions :
          CallLogTransaction(t, <<"u1">>, <<"c1">>, e[1], e[2], e[3])
    \/ \E t \in Tasks, e \in LoggedSecurityEvents :
          CallLogSecurityEvent(t, e[1], <<"u1">>, e[2], e[3])
    \/ \E t \in Tasks : CallLogEntry(t, <<"caller", t>>, <<"u1">>)
    \/ \E t \in Tasks : AuditTaskLog(t)
    \/ AuditTaskTick

(***************************************************************************)
(* RiskEngine: risk factors, overall score and risk level                  *)
(* Severities and weights are in tenths; a score is the exact fraction     *)
(* <<numerator, denominator>>; f64 rounding is not modelled.               *)
(***************************************************************************)
\* bound of the risk model
MaxRiskCalls == 2

\* program constants
AssessmentHistoryCapacity == 10000
ContractLiquidity == 1000000   \* get_contract_liquidity placeholder
ImpermanentLossExposure == 10  \* calculate_impermanent_loss_risk: 0.1, in hundredths

RiskFactor(factor_type, severity, weight) ==
    [factor_type |-> factor_type, severity |-> severity, weight |-> weight]

RECURSIVE WeightedSum(_)
WeightedSum(fs) ==
    IF fs = <<>> THEN 0 ELSE Head(fs).severity * Head(fs).weight + WeightedSum(Tail(fs))

RECURSIVE TotalWeight(_)
TotalWeight(fs) == IF fs = <<>> THEN 0 ELSE Head(fs).weight + TotalWeight(Tail(fs))

calculate_overall_risk_score_unweighted(risk_factors) ==
    IF risk_factors = <<>> THEN <<0, 1>>
    ELSE LET sum == SumSeq([i \in 1..Len(risk_factors) |-> risk_factors[i].severity])
         IN <<sum, 10 * Len(risk_factors)>>

\* calculate_overall_risk_score: (weighted_sum / total_weight).min(1.0)
calculate_overall_risk_score(risk_factors) ==
    IF risk_factors = <<>> THEN <<0, 1>>
    ELSE LET weighted_sum == WeightedSum(risk_factors)
             total_weight == TotalWeight(risk_factors)
         IN IF total_weight > 0
            THEN IF weighted_sum > 10 * total_weight
                 THEN <<1, 1>>
                 ELSE <<weighted_sum, 10 * total_weight>>
            ELSE <<0, 1>>

\* score < tenths / 10
ScoreBelow(score, tenths) == score[1] * 10 < tenths * score[2]

determine_risk_level_swapped(score) ==
    IF ScoreBelow(score, 2) THEN "VeryLow"
    ELSE IF ScoreBelow(score, 4) THEN "Low"
    ELSE IF ScoreBelow(score, 6) THEN "High"
    ELSE IF ScoreBelow(score, 8) THEN "Medium"
    ELSE "VeryHigh"

\* determine_risk_level
determine_risk_level(score) ==
    IF ScoreBelow(score, 2) THEN "VeryLow"
    ELSE IF ScoreBelow(score, 4) THEN "Low"
    ELSE IF ScoreBelow(score, 6) THEN "Medium"
    ELSE IF ScoreBelow(score, 8) THEN "High"
    ELSE "VeryHigh"

\* is tx.to an address
ToAddress(tx) == tx.to # <<>> /\ tx.to[1].kind = "address"

\* assess_smart_contract_risk: is_contract_verified is always true and
\* get_audit_status always "audited"
assess_smart_contract_risk(tx) ==
    IF ToAddress(tx) THEN <<RiskFactor("SmartContractRisk", 1, 8)>> ELSE <<>>

\* assess_market_risk: the volatility of the latest MarketData, in hundredths
assess_market_risk(tx, data) ==
    IF ToAddress(tx) /\ tx.to[1].at \in DOMAIN data /\ data[tx.to[1].at] # <<>>
    THEN LET v == Last(data[tx.to[1].at])
             severity == IF v < 10 THEN 1 ELSE IF v < 20 THEN 3
                         ELSE IF v < 40 THEN 5 ELSE IF v < 60 THEN 7 ELSE 9
         IN <<RiskFactor("PriceVolatility", severity, 6)>>
    ELSE <<>>

\* assess_liquidity_risk: impact_ratio = value / liquidity
assess_liquidity_risk(tx) ==
    IF ToAddress(tx) /\ ContractLiquidity > 0
    THEN LET value == UnwrapOr(tx.value, 0)
             severity == IF value * 100 < ContractLiquidity THEN 1
                         ELSE IF value * 100 < 5 * ContractLiquidity THEN 3
                         ELSE IF value * 10 < ContractLiquidity THEN 5
                         ELSE IF value * 10 < 2 * ContractLiquidity THEN 7
                         ELSE 9
         IN <<RiskFactor("LiquidityRisk", severity, 7)>>
    ELSE <<>>

\* assess_mev_risk: gas_premium = gas_price / market_gas_price - 1
assess_mev_risk(tx, market_gas_price) ==
    LET gas_price == UnwrapOr(tx.gas_price, 0)
        severity == IF market_gas_price > 0
                    THEN IF gas_price * 10 < 11 * market_gas_price THEN 1
                         ELSE IF gas_price * 10 < 13 * market_gas_price THEN 4
                         ELSE IF gas_price * 10 < 15 * market_gas_price THEN 6
                         ELSE 8
                    ELSE 1
    IN <<RiskFactor("MEVRisk", severity, 5)>>

\* contains_flash_loan_pattern
contains_flash_loan_pattern(data) == FALSE

\* assess_flash_loan_risk
assess_flash_loan_risk(tx) ==
    IF tx.data # <<>> /\ contains_flash_loan_pattern(tx.data[1])
    THEN <<RiskFactor("FlashLoanRisk", 7, 8)>>
    ELSE <<>>

PortfolioPosition(token, position_type, value_usd, is_leveraged, collateral, debt) ==
    [token_address |-> token, position_type |-> position_type,
     value_usd |-> value_usd, is_leveraged |-> is_leveraged,
     collateral_value |-> collateral, debt_value |-> debt]

RECURSIVE TotalValueUsd(_)
TotalValueUsd(ps) == IF ps = <<>> THEN 0 ELSE Head(ps).value_usd + TotalValueUsd(Tail(ps))

RECURSIVE MaxValueUsd(_)
MaxValueUsd(ps) ==
    IF ps = <<>> THEN 0
    ELSE LET rest == MaxValueUsd(Tail(ps))
         IN IF Tail(ps) = <<>> \/ Head(ps).value_usd > rest
            THEN Head(ps).value_usd ELSE rest

\* assess_concentration_risk: largest position / total value
assess_concentration_risk(positions) ==
    LET total_value == TotalValueUsd(positions)
        largest == IF total_value > 0 THEN MaxValueUsd(positions) ELSE 0
        whole == IF total_value > 0 THEN total_value ELSE 1
        severity == IF largest * 10 < 2 * whole THEN 1
                    ELSE IF largest * 10 < 4 * whole THEN 3
                    ELSE IF largest * 10 < 6 * whole THEN 5
                    ELSE IF largest * 10 < 8 * whole THEN 7
                    ELSE 9
    IN RiskFactor("ProtocolRisk", severity, 6)

Abs(n) == IF n < 0 THEN -n ELSE n

RECURSIVE SumCorrelations(_, _, _)
SumCorrelations(pairs, positions, matrix) ==
    IF pairs = {} THEN 0
    ELSE LET pr == CHOOSE x \in pairs : TRUE
         IN Abs(matrix[<<positions[pr[1]].token_address, positions[pr[2]].token_address>>])
              + SumCorrelations(pairs \ {pr}, positions, matrix)

\* assess_correlation_risk: mean |correlation| over the pairs the matrix knows,
\* in hundredths
assess_correlation_risk(positions, matrix) ==
    LET pairs == { pr \in (1..Len(positions)) \X (1..Len(positions)) :
                     /\ pr[1] < pr[2]
                     /\ <<positions[pr[1]].token_address,
                          positions[pr[2]].token_address>> \in DOMAIN matrix }
        correlation_count == Cardinality(pairs)
        sum == SumCorrelations(pairs, positions, matrix)
        count == IF correlation_count > 0 THEN correlation_count ELSE 1
        severity == IF sum < 20 * count THEN 1
                    ELSE IF sum < 40 * count THEN 3
                    ELSE IF sum < 60 * count THEN 5
                    ELSE IF sum < 80 * count THEN 7
                    ELSE 9
    IN RiskFactor("PriceVolatility", severity, 5)

\* debt_value.max(1.0)
DebtFloor(p) == IF p.debt_value > 1 THEN p.debt_value ELSE 1

\* assess_liquidation_risk: health factor = collateral / max(debt, 1), the
\* smallest one over the leveraged positions decides
assess_liquidation_risk(positions) ==
    LET leveraged == SelectSeq(positions, LAMBDA p : p.is_leveraged)
        severity ==
            IF leveraged = <<>> THEN 0
            ELSE LET m == CHOOSE i \in 1..Len(leveraged) :
                            \A j \in 1..Len(leveraged) :
                               leveraged[i].collateral_value * DebtFloor(leveraged[j])
                                 <= leveraged[j].collateral_value * DebtFloor(leveraged[i])
                     c == leveraged[m].collateral_value
                     d == DebtFloor(leveraged[m])
                 IN IF c > 2 * d THEN 1
                    ELSE IF 10 * c > 15 * d THEN 3
                    ELSE IF 10 * c > 12 * d THEN 6
                    ELSE IF c > d THEN 8
                    ELSE 10
    IN RiskFactor("LiquidityRisk", severity, 9)

\* assess_impermanent_loss_risk: exposure in hundredths
assess_impermanent_loss_risk(positions) ==
    LET max_il_exposure ==
            IF \E i \in 1..Len(positions) : positions[i].position_type = "LP"
            THEN ImpermanentLossExposure ELSE 0
        severity == IF max_il_exposure < 5 THEN 1
                    ELSE IF max_il_exposure < 10 THEN 3
                    ELSE IF max_il_exposure < 20 THEN 5
                    ELSE IF max_il_exposure < 30 THEN 7
                    ELSE 9
    IN RiskFactor("ImpermanentLoss", severity, 4)

\* the confidence of a transaction and of a portfolio assessment, in hundredths
AssessmentConfidence == 85

PortfolioConfidence == 80

RiskAssessment(kind, risk_factors) ==
    LET overall_risk_score == calculate_overall_risk_score(risk_factors)
    IN [kind |-> kind, ok |-> TRUE, provider_ok |-> TRUE,
        risk_factors |-> risk_factors,
        overall_risk_score |-> overall_risk_score,
        risk_level |-> determine_risk_level(overall_risk_score),
        confidence |-> IF kind = "portfolio" THEN PortfolioConfidence
                       ELSE AssessmentConfidence]

\* ok: the call returned Ok; provider_ok: get_gas_price answered
NoRiskCall == [kind |-> "none", ok |-> TRUE, provider_ok |-> TRUE,
               risk_factors |-> <<>>, overall_risk_score |-> <<0, 1>>,
               risk_level |-> "VeryLow", confidence |-> AssessmentConfidence]

\* assess_transaction_risk; market_gas_price is <<>> when the provider fails
AssessTransactionRisk(tx, market_gas_price) ==
    /\ risk_calls < MaxRiskCalls
    /\ risk_calls' = risk_calls + 1
    /\ UNCHANGED <<market_data, correlation_matrix>>
    /\ UNCHANGED <<oracle_vars, rate_vars, audit_vars, emergency_vars, task_vars, engine_vars>>
    /\ IF market_gas_price = <<>>
       THEN /\ risk_last' = [NoRiskCall EXCEPT !.kind = "transaction",
                                             !.ok = FALSE, !.provider_ok = FALSE]
            /\ UNCHANGED historical_assessments
       ELSE LET risk_factors == assess_smart_contract_risk(tx)
                                  \o assess_market_risk(tx, market_data)
                                  \o assess_liquidity_risk(tx)
                                  \o assess_mev_risk(tx, market_gas_price[1])
                                  \o assess_flash_loan_risk(tx)
                assessment == RiskAssessment("transaction", risk_factors)
                history == Append(historical_assessments, assessment)
            IN /\ risk_last' = assessment
               /\ historical_assessments' =
                     IF Len(history) > AssessmentHistoryCapacity
                     THEN Tail(history) ELSE history

\* assess_portfolio_risk
AssessPortfolioRisk(positions) ==
    /\ risk_calls < MaxRiskCalls
    /\ risk_calls' = risk_calls + 1
    /\ risk_last' = RiskAssessment("portfolio",
          << assess_concentration_risk(positions),
             assess_correlation_risk(positions, correlation_matrix),
             assess_liquidation_risk(positions),
             assess_impermanent_loss_risk(positions) >>)
    /\ UNCHANGED <<market_data, correlation_matrix, historical_assessments>>
    /\ UNCHANGED <<oracle_vars, rate_vars, audit_vars, emergency_vars, task_vars, engine_vars>>

\* calculate_overall_risk_score and determine_risk_level applied to a list of
\* factors
ScoreFactors(risk_factors) ==
    /\ risk_calls < MaxRiskCalls
    /\ risk_calls' = risk_calls + 1
    /\ risk_last' = RiskAssessment("factors", risk_factors)
    /\ UNCHANGED <<market_data, correlation_matrix, historical_assessments>>
    /\ UNCHANGED <<oracle_vars, rate_vars, audit_vars, emergency_vars, task_vars, engine_vars>>

\* transactions that get assessed
RiskTransactions ==
    { [to |-> to, value |-> value, gas_price |-> gas_price, data |-> data] :
        to \in { <<>>, <<[kind |-> "name", at |-> "vault.eth"]>>,
                 <<[kind |-> "address", at |-> "c1"]>> },
        value \in { <<>>, <<80000>>, <<500000>> },
        gas_price \in { <<>>, <<145>> },
        data \in { <<>>, <<"a9059cbb">> } }

MarketGasPrices == { <<>>, <<0>>, <<100>> }

\* portfolios that get assessed
Positions ==
    { PortfolioPosition("t1", "LP", 100, FALSE, 0, 0),
      PortfolioPosition("t2", "long", 300, TRUE, 150, 100),
      PortfolioPosition("t3", "short", 100, TRUE, 90, 100) }

Portfolios ==
    {<<>>} \cup { <<p>> : p \in Positions }
           \cup { <<p, q>> : p \in Positions, q \in Positions }

\* risk factors handed to the score: severity 0..1 and weight > 0, in tenths
Factors ==
    { RiskFactor("SmartContractRisk", severity, weight) :
        severity \in {0, 2, 5, 8, 10}, weight \in {1, 7, 8} }

FactorLists ==
    {<<>>} \cup { <<f>> : f \in Factors } \cup { <<f, g>> : f \in Factors, g \in Factors }

\* RiskEngine::new
RiskNew ==
    /\ market_data = << >>
    /\ correlation_matrix = << >>
    /\ historical_assessments = <<>>
    /\ risk_calls = 0
    /\ risk_last = NoRiskCall

\* RiskEngine::new followed by the market data and correlations a feed provides
RiskInit ==
    /\ market_data \in { << >>, ("c1" :> <<5, 50>>) }
    /\ correlation_matrix \in { << >>, (<<"t1", "t2">> :> 90) }
    /\ historical_assessments = <<>>
    /\ risk_calls = 0
    /\ risk_last = NoRiskCall

RiskNext ==
    \/ \E tx \in RiskTransactions, market_gas_price \in MarketGasPrices :
          AssessTransactionRisk(tx, market_gas_price)
    \/ \E positions \in Portfolios : AssessPortfolioRisk(positions)
    \/ \E risk_factors \in FactorLists : ScoreFactors(risk_factors)

(***************************************************************************)
(* EmergencyResponse: trigger_alert and the automatic response             *)
(***************************************************************************)
\* bound of the emergency model: calls and clock ticks together
MaxEmergencyCalls == 3

AlertIds == {"a1", "a2"}
EmergencyLevels == {"Info", "Warning", "Critical", "Emergency"}

EmergencyAlert(id, level) == [id |-> id, level |-> level, resolved_at |-> <<>>]

\* ResponseAction values; target and amount are 0 where the action has none
ResponseAction(op, target, amount) == [op |-> op, target |-> target, amount |-> amount]

EmergencyProcedure(trigger_conditions, automatic_actions) ==
    [trigger_conditions |-> trigger_conditions, automatic_actions |-> automatic_actions]

\* the procedure setup_default_procedures inserts
DefaultProcedures ==
    "flash_crash" :> EmergencyProcedure(<<"FlashCrash">>,
        << ResponseAction("NotifyAdmins", "none", 0),
           ResponseAction("RebalancePositions", "none", 0) >>)

\* procedure tables an installation is configured with; the first is
\* EmergencyResponse::new
ProcedureTables ==
    { << >>,
      "exploit" :> EmergencyProcedure(<<"SmartContractExploit">>,
          << ResponseAction("EmergencyWithdraw", "f1", 500),
             ResponseAction("PauseProtocol", "p1", 0) >>),
      ("drain" :> EmergencyProcedure(<<"LiquidityDrain", "PriceDrop">>,
          << ResponseAction("PauseProtocol", "p1", 0),
             ResponseAction("EmergencyWithdraw", "f1", 500),
             ResponseAction("FreezeAssets", "u1", 0) >>))
      @@ ("manual" :> EmergencyProcedure(<<>>,
          << ResponseAction("BlockAddress", "u1", 0) >>)) }

\* condition_matches_alert: the placeholder answers true
condition_matches_alert(condition, alert) == TRUE

should_execute_procedure_any_level(alert, procedure) ==
    \E i \in 1..Len(procedure.trigger_conditions) :
        condition_matches_alert(procedure.trigger_conditions[i], alert)

\* should_execute_procedure
should_execute_procedure(alert, procedure) ==
    /\ alert.level \in {"Emergency", "Critical"}
    /\ \E i \in 1..Len(procedure.trigger_conditions) :
          condition_matches_alert(procedure.trigger_conditions[i], alert)

\* pause_protocol: the breaker of the contract, if there is one, is triggered
pause_protocol(breakers, contract, now) ==
    IF contract \in DOMAIN breakers
    THEN [breakers EXCEPT ![contract] = [@ EXCEPT !.triggered = TRUE,
                                                  !.trigger_time = <<now>>]]
    ELSE breakers

\* emergency_withdraw: TRUE is Ok(()), FALSE is Err
emergency_withdraw(funds, from, amount) ==
    ~(from \in DOMAIN funds /\ funds[from] < amount)

\* execute_response_action: the answer and the breakers it leaves
execute_response_action(action, breakers, funds, now) ==
    CASE action.op = "PauseProtocol" ->
            [ok |-> TRUE, breakers |-> pause_protocol(breakers, action.target, now)]
      [] action.op = "EmergencyWithdraw" ->
            [ok |-> emergency_withdraw(funds, action.target, action.amount),
             breakers |-> breakers]
      [] OTHER -> [ok |-> TRUE, breakers |-> breakers]

RECURSIVE RunActions_stop_at_failure(_, _, _, _)
RunActions_stop_at_failure(actions, breakers, funds, now) ==
    IF actions = <<>> THEN [attempted |-> <<>>, breakers |-> breakers]
    ELSE LET first == execute_response_action(Head(actions), breakers, funds, now)
             rest == RunActions_stop_at_failure(Tail(actions), first.breakers, funds, now)
         IN IF first.ok
            THEN [attempted |-> <<[action |-> Head(actions), ok |-> TRUE]>>
                                  \o rest.attempted,
                  breakers |-> rest.breakers]
            ELSE [attempted |-> <<[action |-> Head(actions), ok |-> FALSE]>>,
                  breakers |-> first.breakers]

\* the loop over actions_to_execute: an Err is logged and the loop goes on
RECURSIVE RunActions(_, _, _, _)
RunActions(actions, breakers, funds, now) ==
    IF actions = <<>> THEN [attempted |-> <<>>, breakers |-> breakers]
    ELSE LET first == execute_response_action(Head(actions), breakers, funds, now)
             rest == RunActions(Tail(actions), first.breakers, funds, now)
         IN [attempted |-> <<[action |-> Head(actions), ok |-> first.ok]>>
                              \o rest.attempted,
             breakers |-> rest.breakers]

\* the orders in which a HashMap may hand out the keys in names
RECURSIVE IterationOrders(_)
IterationOrders(names) ==
    IF names = {} THEN {<<>>}
    ELSE UNION { { <<n>> \o rest : rest \in IterationOrders(names \ {n}) } : n \in names }

ProcedureNames == {"flash_crash", "exploit", "drain", "manual"}

AllIterationOrders == UNION { IterationOrders(names) : names \in SUBSET ProcedureNames }

\* actions_to_execute: the actions of the applicable procedures, in the order
\* the procedures are visited
RECURSIVE ActionsToExecute(_, _, _)
ActionsToExecute(order, procedures, alert) ==
    IF order = <<>> THEN <<>>
    ELSE (IF should_execute_procedure(alert, procedures[Head(order)])
          THEN procedures[Head(order)].automatic_actions ELSE <<>>)
         \o ActionsToExecute(Tail(order), procedures, alert)

NoEmergencyCall == [alert |-> <<>>, result |-> "none", selected |-> <<>>,
                    attempted |-> <<>>, notified |-> <<>>]

\* the contact load_emergency_contacts pushes
SystemAdmin == [name |-> "System Admin", role |-> "Administrator",
                notification_priority |-> 1]

\* a notification that goes out for Critical and Emergency alerts only
notify_emergency_contacts_high_only(contacts, alert) ==
    IF alert.level \in {"Emergency", "Critical"}
    THEN [i \in 1..Len(contacts) |-> [contact |-> contacts[i].name,
                                      alert_id |-> alert.id]]
    ELSE <<>>

\* notify_emergency_contacts: the notifications sent, one per contact in the
\* order of the list
notify_emergency_contacts(contacts, alert) ==
    [i \in 1..Len(contacts) |-> [contact |-> contacts[i].name,
                                 alert_id |-> alert.id]]

ResponseRecord(alert_id, now, outcome) ==
    [alert_id |-> alert_id, actions_taken |-> <<>>, timestamp |-> now,
     outcome |-> outcome]

\* log_emergency_incident
log_emergency_incident(history, alert, now) ==
    Append(history, ResponseRecord(alert.id, now, "Response initiated"))

\* initialize: setup_default_procedures and load_emergency_contacts; the
\* other steps change nothing modelled here
EmergencyInitialize ==
    /\ emergency_calls < MaxEmergencyCalls
    /\ emergency_calls' = emergency_calls + 1
    /\ emergency_procedures' = DefaultProcedures @@ emergency_procedures
    /\ emergency_contacts' = Append(emergency_contacts, SystemAdmin)
    /\ emergency_last' = NoEmergencyCall
    /\ UNCHANGED <<active_alerts, response_history, emergency_breakers,
                   auto_response_enabled, emergency_funds, emergency_now>>
    /\ UNCHANGED <<oracle_vars, rate_vars, audit_vars, risk_vars, task_vars, engine_vars>>

\* trigger_alert; order is the order in which the procedures map is iterated
TriggerAlert(alert, order) ==
    /\ emergency_calls < MaxEmergencyCalls
    /\ emergency_calls' = emergency_calls + 1
    /\ order \in IterationOrders(DOMAIN emergency_procedures)
    /\ active_alerts' = (alert.id :> alert) @@ active_alerts
    /\ LET selected == IF auto_response_enabled
                       THEN ActionsToExecute(order, emergency_procedures, alert)
                       ELSE <<>>
           run == RunActions(selected, emergency_breakers, emergency_funds,
                             emergency_now)
       IN /\ emergency_breakers' = run.breakers
          /\ emergency_last' = [alert |-> <<alert>>, result |-> "ok",
                                selected |-> selected, attempted |-> run.attempted,
                                notified |-> notify_emergency_contacts(
                                                 emergency_contacts, alert)]
    /\ response_history' = log_emergency_incident(response_history, alert,
                                                  emergency_now)
    /\ UNCHANGED <<emergency_procedures, auto_response_enabled, emergency_funds,
                   emergency_contacts, emergency_now>>
    /\ UNCHANGED <<oracle_vars, rate_vars, audit_vars, risk_vars, task_vars, engine_vars>>

\* resolve_alert
ResolveAlert(alert_id) ==
    /\ emergency_calls < MaxEmergencyCalls
    /\ emergency_calls' = emergency_calls + 1
    /\ emergency_last' = NoEmergencyCall
    /\ IF alert_id \in DOMAIN active_alerts
       THEN /\ active_alerts' = [id \in DOMAIN active_alerts \ {alert_id} |->
                                    active_alerts[id]]
            /\ response_history' = Append(response_history,
                  ResponseRecord(alert_id, emergency_now, "resolved"))
       ELSE UNCHANGED <<active_alerts, response_history>>
    /\ UNCHANGED <<emergency_procedures, emergency_breakers, auto_response_enabled,
                   emergency_funds, emergency_contacts, emergency_now>>
    /\ UNCHANGED <<oracle_vars, rate_vars, audit_vars, risk_vars, task_vars, engine_vars>>

\* the wall clock advances between two calls
EmergencyTick ==
    /\ emergency_calls < MaxEmergencyCalls
    /\ emergency_calls' = emergency_calls + 1
    /\ emergency_now' = emergency_now + 1
    /\ emergency_last' = NoEmergencyCall
    /\ UNCHANGED <<active_alerts, emergency_procedures, response_history,
                   emergency_breakers, auto_response_enabled, emergency_funds,
                   emergency_contacts>>
    /\ UNCHANGED <<oracle_vars, rate_vars, audit_vars, risk_vars, task_vars, engine_vars>>

\* EmergencyResponse::new
EmergencyNew ==
    /\ active_alerts = << >>
    /\ emergency_procedures = << >>
    /\ response_history = <<>>
    /\ emergency_breakers = << >>
    /\ auto_response_enabled = TRUE
    /\ emergency_funds = << >>
    /\ emergency_contacts = <<>>
    /\ emergency_now = 0
    /\ emergency_calls = 0
    /\ emergency_last = NoEmergencyCall

\* EmergencyResponse::new followed by the installation's procedures, breakers,
\* funds and auto-response switch
EmergencyInit ==
    /\ active_alerts = << >>
    /\ emergency_procedures \in ProcedureTables
    /\ response_history = <<>>
    /\ emergency_breakers \in
          { << >>, ("p1" :> [triggered |-> FALSE, trigger_time |-> <<>>,
                             cooldown_period |-> 1]) }
    /\ auto_response_enabled \in BOOLEAN
    /\ emergency_funds \in { << >>, ("f1" :> 100) }
    /\ emergency_contacts = <<>>
    /\ emergency_now = 0
    /\ emergency_calls = 0
    /\ emergency_last = NoEmergencyCall

EmergencyNext ==
    \/ EmergencyInitialize
    \/ \E id \in AlertIds, level \in EmergencyLevels, order \in AllIterationOrders :
          TriggerAlert(EmergencyAlert(id, level), order)
    \/ \E id \in AlertIds : ResolveAlert(id)
    \/ EmergencyTick

(***************************************************************************)
(* MevProtection (mev_protection.rs).  Bytes are modelled by the sequence  *)
(* of their 4-byte words, so a call's selector is the first element and    *)
(* data shorter than four bytes is the empty sequence.  The mempool        *)
(* monitor's pending_transactions map is created empty and nothing in the  *)
(* source fills it.                                                        *)
(***************************************************************************)
\* bound on the calls and clock ticks of one run
MaxMevCalls == 4

\* recent_transactions keeps the newest 1000 patterns; the model keeps fewer
RecentCapacity == 2

\* a recorded transaction counts for 30 seconds
FrontrunWindow == 30

\* confidences, in tenths
FrontrunConfidence == 8

GasConfidence == 6

\* tx.gas.unwrap_or(21000)
DefaultGasLimit == 21000

\* TransactionRequest.to: None (contract creation), an ENS name or an address
MevTargets == { <<>>,
                <<[kind |-> "name", at |-> "n1"]>>,
                <<[kind |-> "address", at |-> "c1"]>> }

MevData == { <<>>, <<"a9059cbb">>, <<"f5298acf">> }

\* TransactionRequest.gas_price: Option<U256>
MevGasPrices == { <<>>, <<10>>, <<15>> }

MevSenders == {"s1"}

MevRequests == [to : MevTargets, data : MevData, gas_price : MevGasPrices,
                value : {5}]

\* what Provider::get_gas_price answers: an error or a price
MevChainGas == { <<>>, <<10>> }

MevClockSteps == {1, 30}

NoMevCall == [call |-> 0, tx |-> <<>>, threats |-> <<>>]

\* the `match &tx.to` of detect_frontrunning and record_transaction
tx_to(tx) ==
    IF tx.to # <<>> /\ tx.to[1].kind = "address" THEN <<tx.to[1].at>> ELSE <<>>

\* tx.gas_price.unwrap_or(U256::zero())
tx_gas_price(tx) == IF tx.gas_price = <<>> THEN 0 ELSE tx.gas_price[1]

is_similar_function_call(data1, data2) ==
    IF data1 = <<>> \/ data2 = <<>> THEN FALSE ELSE data1[1] = data2[1]

\* the positions of the window that make detect_frontrunning return a threat
FrontrunHits(window, tx, now) ==
    { i \in 1..Len(window) :
        /\ ~(now - window[i].timestamp > FrontrunWindow)
        /\ window[i].to_address = tx_to(tx)
        /\ is_similar_function_call(window[i].data, tx.data)
        /\ window[i].gas_price > tx_gas_price(tx) }

\* Ok(Some(threat)) for the first such position, Ok(None) when there is none
detect_frontrunning(window, tx, now) ==
    LET hits == FrontrunHits(window, tx, now)
    IN  IF hits = {} THEN <<>>
        ELSE LET i == CHOOSE k \in hits : \A j \in hits : k <= j
             IN  <<[threat_type |-> "Frontrunning",
                    confidence |-> FrontrunConfidence,
                    potential_value |-> window[i].value,
                    detected_at |-> now,
                    attacker_address |-> <<window[i].from_address>>]>>

analyze_gas_pricing(oracle_price, tx, now) ==
    IF tx_gas_price(tx) > oracle_price * 2
    THEN <<[threat_type |-> "Unknown",
            confidence |-> GasConfidence,
            potential_value |-> tx_gas_price(tx) * DefaultGasLimit,
            detected_at |-> now,
            attacker_address |-> <<>>]>>
    ELSE <<>>

\* push_back, then pop_front while more than the capacity are kept
record_transaction(window, tx, from, now) ==
    LET pattern == [gas_price |-> tx_gas_price(tx),
                    gas_limit |-> DefaultGasLimit,
                    to_address |-> tx_to(tx),
                    value |-> tx.value,
                    data |-> tx.data,
                    timestamp |-> now,
                    from_address |-> from]
        pushed == Append(window, pattern)
    IN  IF Len(pushed) > RecentCapacity
        THEN SubSeq(pushed, Len(pushed) - RecentCapacity + 1, Len(pushed))
        ELSE pushed

\* MevProtection::initialize: the gas price oracle takes the provider's answer
MevInitialize(gas) ==
    /\ mev_calls < MaxMevCalls
    /\ mev_calls' = mev_calls + 1
    /\ gas_price_oracle' = IF gas = <<>> THEN gas_price_oracle ELSE gas[1]
    /\ UNCHANGED <<recent_transactions, mev_now, mev_last>>
    /\ UNCHANGED <<oracle_vars, rate_vars, audit_vars, risk_vars,
                   emergency_vars, task_vars, mev_others>>

RecordTransaction(tx, from) ==
    /\ mev_calls < MaxMevCalls
    /\ mev_calls' = mev_calls + 1
    /\ recent_transactions' =
          record_transaction(recent_transactions, tx, from, mev_now)
    /\ UNCHANGED <<gas_price_oracle, mev_now, mev_last>>
    /\ UNCHANGED <<oracle_vars, rate_vars, audit_vars, risk_vars,
                   emergency_vars, task_vars, mev_others>>

\* MevProtection::analyze_transaction: the sandwich and mempool detectors
\* iterate over pending_transactions and so return Ok(None)
MevAnalyzeTransaction(tx) ==
    /\ mev_calls < MaxMevCalls
    /\ mev_calls' = mev_calls + 1
    /\ mev_last' =
          [call |-> mev_calls + 1,
           tx |-> <<tx>>,
           threats |-> detect_frontrunning(recent_transactions, tx, mev_now)
                       \o analyze_gas_pricing(gas_price_oracle, tx, mev_now)]
    /\ UNCHANGED <<recent_transactions, gas_price_oracle, mev_now>>
    /\ UNCHANGED <<oracle_vars, rate_vars, audit_vars, risk_vars,
                   emergency_vars, task_vars, mev_others>>

MevTick(d) ==
    /\ mev_calls < MaxMevCalls
    /\ mev_calls' = mev_calls + 1
    /\ mev_now' = mev_now + d
    /\ UNCHANGED <<recent_transactions, gas_price_oracle, mev_last>>
    /\ UNCHANGED <<oracle_vars, rate_vars, audit_vars, risk_vars,
                   emergency_vars, task_vars, mev_others>>

\* MevProtection::new
MevNew ==
    /\ recent_transactions = <<>>
    /\ gas_price_oracle = 0
    /\ mev_now = 0
    /\ mev_calls = 0
    /\ mev_last = NoMevCall

MevNext ==
    \/ \E gas \in MevChainGas : MevInitialize(gas)
    \/ \E tx \in MevRequests, from \in MevSenders : RecordTransaction(tx, from)
    \/ \E tx \in MevRequests : MevAnalyzeTransaction(tx)
    \/ \E d \in MevClockSteps : MevTick(d)


(***************************************************************************)
(* DeFiSecurity's threat detectors and position monitor (defi_security.rs).*)
(* A transaction value is counted in ether.  PositionMonitor.positions is  *)
(* created empty and read by monitor_positions; it stands for the feed of  *)
(* positions and is drawn at Init.                                         *)
(***************************************************************************)
\* bound on the calls of one run
MaxDefiCalls == 3

\* a position is at risk under a health factor of 1.1
LiquidationThreshold == <<11, 10>>

\* detect_price_manipulation: a trade above 100 ETH
LargeTradeEth == 100

FlashLoanProviders == {"aave"}

PositionOwners == {"a1", "a2"}

\* [collateral, debt] of a monitored position
PositionStates == { [collateral |-> 0, debt |-> 0],
                    [collateral |-> 1, debt |-> 0],
                    [collateral |-> 109, debt |-> 100],
                    [collateral |-> 110, debt |-> 100] }

PositionTables ==
    UNION { [owners -> PositionStates] : owners \in SUBSET PositionOwners }

\* the orders in which the HashMap of positions can be iterated
PositionOrders ==
    UNION { { order \in [1..n -> PositionOwners] :
                \A i, j \in 1..n : order[i] = order[j] => i = j } :
            n \in 0..Cardinality(PositionOwners) }

DefiTargets == { <<>>,
                 <<[kind |-> "name", at |-> "a1"]>>,
                 <<[kind |-> "address", at |-> "a1"]>>,
                 <<[kind |-> "address", at |-> "a2"]>>,
                 <<[kind |-> "address", at |-> "aave"]>> }

\* Option<Bytes>: absent or shorter than a selector, flashLoan, liquidateBorrow
DefiData == { <<>>, <<"a9059cbb">>, <<"f5298acf">> }

DefiValues == {5, 101}

DefiRequests == [to : DefiTargets, data : DefiData, value : DefiValues]

NoDefiCall == [call |-> 0, tx |-> <<>>, threats |-> <<>>]

is_flash_loan_call(data) == data # <<>> /\ data[1] = "a9059cbb"

is_liquidation_function(selector) == selector = "f5298acf"

\* the health factor taken as collateral / max(debt, 1)
HealthFactorBelow_debt_floor(position, ratio) ==
    LET debt == IF position.debt > 1 THEN position.debt ELSE 1
    IN  position.collateral * ratio[2] < ratio[1] * debt

\* calculate_health_factor(position) < num/den, where a position without
\* debt has an infinite health factor
HealthFactorBelow(position, ratio) ==
    /\ position.debt # 0
    /\ position.collateral * ratio[2] < ratio[1] * position.debt

\* the addresses pushed while the map is iterated in the given order
at_risk_positions(table, order) ==
    SelectSeq(order, LAMBDA a : HealthFactorBelow(table[a], LiquidationThreshold))

defi_detect_flash_loan_attack(tx) ==
    IF /\ tx.to # <<>>
       /\ tx.to[1].kind = "address"
       /\ tx.to[1].at \in FlashLoanProviders
       /\ is_flash_loan_call(tx.data)
    THEN <<[threat |-> "FlashLoanAttack", target |-> tx.to[1].at,
            amount |-> tx.value]>>
    ELSE <<>>

detect_liquidation_attack(queue, tx) ==
    IF /\ tx.data # <<>>
       /\ is_liquidation_function(tx.data[1])
       /\ tx.to # <<>>
       /\ tx.to[1].kind = "address"
       /\ \E i \in 1..Len(queue) : queue[i] = tx.to[1].at
    THEN <<[threat |-> "LiquidationAttack", target |-> tx.to[1].at,
            amount |-> tx.value]>>
    ELSE <<>>

\* is_dex_contract answers true for every address
detect_price_manipulation(tx) ==
    IF /\ tx.to # <<>>
       /\ tx.to[1].kind = "address"
       /\ tx.value > LargeTradeEth
    THEN <<[threat |-> "PriceManipulation", target |-> tx.to[1].at,
            amount |-> tx.value]>>
    ELSE <<>>

MonitorPositions(order) ==
    /\ defi_calls < MaxDefiCalls
    /\ { order[i] : i \in 1..Len(order) } = DOMAIN monitored_positions
    /\ defi_calls' = defi_calls + 1
    /\ liquidation_queue' = at_risk_positions(monitored_positions, order)
    /\ UNCHANGED <<monitored_positions, defi_last>>
    /\ UNCHANGED <<oracle_vars, rate_vars, audit_vars, risk_vars,
                   emergency_vars, task_vars, defi_others>>

\* the governance detector ends in is_suspicious_voting_pattern, which answers
\* false, and the reentrancy detector answers None
AnalyzeDefiTransaction(tx) ==
    /\ defi_calls < MaxDefiCalls
    /\ defi_calls' = defi_calls + 1
    /\ defi_last' =
          [call |-> defi_calls + 1,
           tx |-> <<tx>>,
           threats |-> defi_detect_flash_loan_attack(tx)
                       \o detect_liquidation_attack(liquidation_queue, tx)
                       \o detect_price_manipulation(tx)]
    /\ UNCHANGED <<monitored_positions, liquidation_queue>>
    /\ UNCHANGED <<oracle_vars, rate_vars, audit_vars, risk_vars,
                   emergency_vars, task_vars, defi_others>>

\* DeFiSecurity::new
DefiNew ==
    /\ monitored_positions = << >>
    /\ liquidation_queue = <<>>
    /\ defi_calls = 0
    /\ defi_last = NoDefiCall

DefiInit ==
    /\ monitored_positions \in PositionTables
    /\ liquidation_queue = <<>>
    /\ defi_calls = 0
    /\ defi_last = NoDefiCall

DefiNext ==
    \/ \E order \in PositionOrders : MonitorPositions(order)
    \/ \E tx \in DefiRequests : AnalyzeDefiTransaction(tx)


(***************************************************************************)
(* AuditTrail::query_entries (audit_trail.rs).  decrypt_entry returns the  *)
(* entry as stored.                                                        *)
(***************************************************************************)
\* the query without any criterion
AnyQuery == [start_time |-> <<>>, end_time |-> <<>>, entry_types |-> {},
             user_address |-> <<>>, contract_address |-> <<>>,
             risk_score_min |-> <<>>, risk_score_max |-> <<>>,
             security_flags |-> {}, limit |-> <<>>, offset |-> <<>>]

AuditQueries ==
    { AnyQuery,
      [AnyQuery EXCEPT !.start_time = <<100>>],
      [AnyQuery EXCEPT !.end_time = <<0>>],
      [AnyQuery EXCEPT !.entry_types = {"SecurityViolation", "SystemStart"}],
      [AnyQuery EXCEPT !.user_address = <<"u1">>],
      [AnyQuery EXCEPT !.contract_address = <<"c1">>],
      [AnyQuery EXCEPT !.risk_score_min = <<60>>],
      [AnyQuery EXCEPT !.risk_score_max = <<60>>],
      [AnyQuery EXCEPT !.security_flags = {"sanctioned", "mixer"}],
      [AnyQuery EXCEPT !.offset = <<1>>],
      [AnyQuery EXCEPT !.limit = <<1>>],
      [AnyQuery EXCEPT !.limit = <<1>>, !.offset = <<1>>],
      [AnyQuery EXCEPT !.limit = <<2>>, !.risk_score_min = <<60>>] }

NoQuery == [call |-> 0, query |-> <<>>, results |-> <<>>]

matches_query(entry, query) ==
    /\ query.start_time # <<>> => ~(entry.timestamp < query.start_time[1])
    /\ query.end_time # <<>> => ~(entry.timestamp > query.end_time[1])
    /\ query.entry_types = {} \/ entry.entry_type \in query.entry_types
    /\ query.user_address # <<>> => entry.user_address = query.user_address
    /\ query.contract_address # <<>> =>
          entry.contract_address = query.contract_address
    /\ query.risk_score_min # <<>> =>
          ~(UnwrapOr(entry.risk_score, 0) < query.risk_score_min[1])
    /\ query.risk_score_max # <<>> =>
          ~(UnwrapOr(entry.risk_score, 0) > query.risk_score_max[1])
    /\ query.security_flags # {} =>
          query.security_flags \cap entry.security_flags # {}

\* log.iter().skip(start).take(limit) when a limit is given, else the log
QueriedSlice(log, query) ==
    IF query.limit # <<>>
    THEN LET start == UnwrapOr(query.offset, 0)
             stop == IF start + query.limit[1] < Len(log)
                     THEN start + query.limit[1] ELSE Len(log)
         IN  SubSeq(log, start + 1, stop)
    ELSE log

\* results.sort_by(|a, b| b.timestamp.cmp(&a.timestamp)): a stable sort, so
\* entries of one timestamp keep their order
RECURSIVE InsertNewestFirst(_, _)
InsertNewestFirst(sorted, e) ==
    IF sorted = <<>> THEN <<e>>
    ELSE IF Head(sorted).timestamp >= e.timestamp
         THEN <<Head(sorted)>> \o InsertNewestFirst(Tail(sorted), e)
         ELSE <<e>> \o sorted

RECURSIVE SortNewestFirst(_)
SortNewestFirst(entries) ==
    IF entries = <<>> THEN <<>>
    ELSE InsertNewestFirst(SortNewestFirst(SubSeq(entries, 1, Len(entries) - 1)),
                           entries[Len(entries)])

query_entries(log, query) ==
    SortNewestFirst(SelectSeq(QueriedSlice(log, query),
                              LAMBDA e : matches_query(e, query)))

QueryEntries(query) ==
    /\ audit_calls < MaxAuditCalls
    /\ audit_calls' = audit_calls + 1
    /\ query_last' = [call |-> audit_calls + 1, query |-> <<query>>,
                      results |-> query_entries(audit_log, query)]
    /\ UNCHANGED <<audit_log, indexed_entries, compliance_rules, audit_now,
                   audit_last>>
    /\ UNCHANGED <<oracle_vars, rate_vars, risk_vars, emergency_vars,
                   task_vars, query_others>>

QueryNew == query_last = NoQuery

QueryNext == \E query \in AuditQueries : QueryEntries(query)


(***************************************************************************)
(* AdvancedSecurityManager (mod.rs) under concurrent calls.  A task steps  *)
(* through analyze_transaction, handle_emergency or                        *)
(* generate_security_report from one await on a manager lock to the next;  *)
(* the calls into the modules between two such awaits are part of the      *)
(* step.  The guard `config` of analyze_transaction and of                 *)
(* generate_security_report and the guard `metrics` of                     *)
(* generate_security_report are locals and are held until the call         *)
(* returns.  new stores SecurityConfig::default() and nothing writes it    *)
(* (ManagerNew).  ManagerInit draws risk_tolerance from the default and    *)
(* one stricter value of the configuration struct: with the default no     *)
(* score the analyses can produce reaches the tolerance.                   *)
(***************************************************************************)
\* bound on the number of calls started
MaxManagerCalls == 3

\* each MEV threat adds 0.3 and each DeFi threat 0.2 to the score, in tenths
MevThreatScore == 3

DefiThreatScore == 2

\* SecurityConfig::default().risk_tolerance, in hundredths
DefaultRiskTolerance == 70

RiskTolerances == {DefaultRiskTolerance, 50}

ManagerLockNames == {"config", "threat_level", "security_metrics"}

\* a plain call, and a large flash loan at a gas price above the market
ManagerRequests ==
    { [to |-> <<[kind |-> "address", at |-> "c1"]>>, data |-> <<>>,
       gas_price |-> <<>>, value |-> 0, from |-> <<"u1">>],
      [to |-> <<[kind |-> "address", at |-> "aave"]>>, data |-> <<"a9059cbb">>,
       gas_price |-> <<145>>, value |-> 101, from |-> <<"u1">>] }

\* what Provider::get_gas_price answers to the risk engine: an error or a price
ManagerChainGas == { <<>>, <<100>> }

ManagerAlerts == { EmergencyAlert("a1", "Critical") }

NoManagerResult == [kind |-> "none", tx |-> <<>>, risk_score |-> <<0, 1>>,
                    threats |-> 0, security_status |-> "Safe",
                    should_proceed |-> TRUE]

\* the detectors return at most four MEV threats and five DeFi threats
MaxMevThreats == 4

MaxDefiThreats == 5

\* scores the risk engine may return
OverallScores == { <<0, 1>>, <<1, 2>>, <<7, 10>>, <<1, 1>> }

NoVerdict == [mev |-> 0, defi |-> 0, overall |-> <<0, 1>>,
              risk_score |-> <<0, 1>>, security_status |-> "Safe",
              should_proceed |-> TRUE, scored |-> FALSE]

NoManagerTask == [op |-> "idle", pc |-> "idle", tx |-> <<>>, alert |-> <<>>,
                  risk_score |-> <<0, 1>>, threats |-> 0,
                  result |-> NoManagerResult]

\* every read guard t holds is dropped
ManagerDropped(locks, t) ==
    [l \in ManagerLockNames |-> [locks[l] EXCEPT !.readers = @ \ {t}]]

\* the transaction as the risk engine reads it: value in wei, where one ether
\* or more is above the placeholder liquidity of every contract
RiskView(tx) ==
    [to |-> tx.to, data |-> tx.data, gas_price |-> tx.gas_price,
     value |-> <<IF tx.value > 0 THEN ContractLiquidity ELSE 0>>]

\* the threats of analyze_transaction, lines 207-228
ManagerThreats(tx) ==
    [mev |-> detect_frontrunning(recent_transactions, tx, mev_now)
             \o analyze_gas_pricing(gas_price_oracle, tx, mev_now),
     defi |-> defi_detect_flash_loan_attack(tx)
              \o detect_liquidation_attack(liquidation_queue, tx)
              \o detect_price_manipulation(tx)]

\* risk_score = ((0.3 per MEV threat + 0.2 per DeFi threat) + overall) / 2,
\* then min(1.0)
ManagerRiskScore(threats, overall) ==
    LET sum == MevThreatScore * Len(threats.mev)
                 + DefiThreatScore * Len(threats.defi)
        num == sum * overall[2] + 10 * overall[1]
        den == 20 * overall[2]
    IN  IF num > den THEN <<1, 1>> ELSE <<num, den>>

\* the match on risk_score of analyze_transaction, lines 240-246
StatusOfScore(score) ==
    IF 10 * score[1] < 3 * score[2] THEN "Safe"
    ELSE IF 10 * score[1] < 6 * score[2] THEN "Caution"
    ELSE IF 10 * score[1] < 8 * score[2] THEN "Warning"
    ELSE "Danger"

\* the match on risk_score of update_threat_level_if_needed
LevelOfScore(score) ==
    IF 10 * score[1] < 3 * score[2] THEN "Low"
    ELSE IF 10 * score[1] < 6 * score[2] THEN "Medium"
    ELSE IF 10 * score[1] < 8 * score[2] THEN "High"
    ELSE "Critical"

\* a threat level that is only ever raised
update_threat_level_if_needed_raise_only(current, score) ==
    LET rank == [l \in {"Low", "Medium", "High", "Critical"} |->
                    CASE l = "Low" -> 0 [] l = "Medium" -> 1
                      [] l = "High" -> 2 [] OTHER -> 3]
    IN  IF rank[LevelOfScore(score)] > rank[current]
        THEN LevelOfScore(score) ELSE current

\* update_threat_level_if_needed: the level it leaves
update_threat_level_if_needed(current, score) ==
    IF LevelOfScore(score) # current THEN LevelOfScore(score) ELSE current

\* get_security_status
get_security_status(level) ==
    CASE level = "Low" -> "Safe"
      [] level = "Medium" -> "Caution"
      [] level = "High" -> "Warning"
      [] OTHER -> "Danger"

\* a should_proceed that lets a score equal to the tolerance pass
ShouldProceed_at_most(score, config) ==
    100 * score[1] <= config.risk_tolerance * score[2]

\* risk_score < config.risk_tolerance
ShouldProceed(score, config) ==
    100 * score[1] < config.risk_tolerance * score[2]

\* the modules a step does not call
ManagerQuiet ==
    UNCHANGED <<oracle_vars, rate_vars, task_vars, mev_vars, defi_vars,
                query_vars, manager_config, manager_calls, verdict>>

ManagerAt(t, op, pc) == manager_tasks[t].op = op /\ manager_tasks[t].pc = pc

ManagerGoto(t, pc) == manager_tasks' = [manager_tasks EXCEPT ![t].pc = pc]

\* t cannot take l now and joins the queue
ManagerWaitFor(t, l, mode) ==
    /\ ~CanAcquire(manager_locks, l, t, mode)
    /\ ~Queued(manager_locks, l, t)
    /\ manager_locks' = [manager_locks EXCEPT
                            ![l].queue = Append(@, [task |-> t, mode |-> mode])]
    /\ UNCHANGED <<manager_tasks, threat_level, security_metrics>>
    /\ UNCHANGED <<audit_vars, risk_vars, emergency_vars>>

\* the call of t returns: its guards are dropped
ManagerReturn(t, locks, result) ==
    /\ manager_tasks' = [manager_tasks EXCEPT ![t] = [NoManagerTask EXCEPT
                                                        !.result = result]]
    /\ manager_locks' = ManagerDropped(locks, t)

\* a task starts a call
CallAnalyzeTransaction(t, tx) ==
    /\ manager_tasks[t].op = "idle"
    /\ manager_calls < MaxManagerCalls
    /\ manager_calls' = manager_calls + 1
    /\ manager_tasks' = [manager_tasks EXCEPT ![t] = [NoManagerTask EXCEPT
                            !.op = "analyze_transaction", !.pc = "config",
                            !.tx = <<tx>>]]
    /\ UNCHANGED <<manager_config, threat_level, security_metrics, manager_locks,
                   verdict>>
    /\ UNCHANGED <<oracle_vars, rate_vars, audit_vars, risk_vars, emergency_vars,
                   task_vars, mev_vars, defi_vars, query_vars>>

CallHandleEmergency(t, alert) ==
    /\ manager_tasks[t].op = "idle"
    /\ manager_calls < MaxManagerCalls
    /\ manager_calls' = manager_calls + 1
    /\ manager_tasks' = [manager_tasks EXCEPT ![t] = [NoManagerTask EXCEPT
                            !.op = "handle_emergency", !.pc = "trigger",
                            !.alert = <<alert>>]]
    /\ UNCHANGED <<manager_config, threat_level, security_metrics, manager_locks,
                   verdict>>
    /\ UNCHANGED <<oracle_vars, rate_vars, audit_vars, risk_vars, emergency_vars,
                   task_vars, mev_vars, defi_vars, query_vars>>

CallGetSecurityStatus(t) ==
    /\ manager_tasks[t].op = "idle"
    /\ manager_calls < MaxManagerCalls
    /\ manager_calls' = manager_calls + 1
    /\ manager_tasks' = [manager_tasks EXCEPT ![t] = [NoManagerTask EXCEPT
                            !.op = "get_security_status", !.pc = "threat_level"]]
    /\ UNCHANGED <<manager_config, threat_level, security_metrics, manager_locks,
                   verdict>>
    /\ UNCHANGED <<oracle_vars, rate_vars, audit_vars, risk_vars, emergency_vars,
                   task_vars, mev_vars, defi_vars, query_vars>>

CallGenerateSecurityReport(t) ==
    /\ manager_tasks[t].op = "idle"
    /\ manager_calls < MaxManagerCalls
    /\ manager_calls' = manager_calls + 1
    /\ manager_tasks' = [manager_tasks EXCEPT ![t] = [NoManagerTask EXCEPT
                            !.op = "generate_security_report", !.pc = "config"]]
    /\ UNCHANGED <<manager_config, threat_level, security_metrics, manager_locks,
                   verdict>>
    /\ UNCHANGED <<oracle_vars, rate_vars, audit_vars, risk_vars, emergency_vars,
                   task_vars, mev_vars, defi_vars, query_vars>>

\* analyze_transaction, lines 204-247: let config = self.config.read().await,
\* then the module analyses; a provider error leaves with `?`
AnalyzeConfig(t, gas) ==
    /\ ManagerAt(t, "analyze_transaction", "config")
    /\ ManagerQuiet
    /\ \/ /\ CanAcquire(manager_locks, "config", t, "read")
          /\ UNCHANGED <<audit_vars, emergency_vars, threat_level, security_metrics>>
          /\ UNCHANGED <<market_data, correlation_matrix, risk_calls, risk_last>>
          /\ LET tx == manager_tasks[t].tx[1]
                 locks == Holding(Dequeued(manager_locks, "config", t), "config", t)
                 threats == ManagerThreats(tx)
                 risk_factors == assess_smart_contract_risk(RiskView(tx))
                                   \o assess_market_risk(RiskView(tx), market_data)
                                   \o assess_liquidity_risk(RiskView(tx))
                                   \o assess_mev_risk(RiskView(tx), gas[1])
                                   \o assess_flash_loan_risk(RiskView(tx))
                 assessment == RiskAssessment("transaction", risk_factors)
                 history == Append(historical_assessments, assessment)
             IN  IF gas = <<>>
                 THEN /\ ManagerReturn(t, locks,
                             [NoManagerResult EXCEPT !.kind = "error",
                                                     !.tx = manager_tasks[t].tx])
                      /\ UNCHANGED historical_assessments
                 ELSE /\ historical_assessments' =
                            IF Len(history) > AssessmentHistoryCapacity
                            THEN Tail(history) ELSE history
                      /\ manager_locks' = locks
                      /\ manager_tasks' = [manager_tasks EXCEPT
                            ![t].pc = "threat_level",
                            ![t].risk_score =
                                ManagerRiskScore(threats, assessment.overall_risk_score),
                            ![t].threats = Len(threats.mev) + Len(threats.defi)]
       \/ ManagerWaitFor(t, "config", "read")

\* the score as the audit trail stores it, in hundredths
ScoreHundredths(score) == (100 * score[1]) \div score[2]

\* lines 249-260: update_threat_level_if_needed takes threat_level.write(),
\* then log_security_event; a blocked entry leaves with `?`
AnalyzeThreatLevel(t) ==
    /\ ManagerAt(t, "analyze_transaction", "threat_level")
    /\ ManagerQuiet
    /\ \/ /\ CanAcquire(manager_locks, "threat_level", t, "write")
          /\ UNCHANGED <<risk_vars, emergency_vars, security_metrics>>
          /\ UNCHANGED <<compliance_rules, audit_now, audit_calls, audit_last>>
          /\ threat_level' = update_threat_level_if_needed(threat_level,
                                                manager_tasks[t].risk_score)
          /\ LET task == manager_tasks[t]
                 locks == Dequeued(manager_locks, "threat_level", t)
                 entry == AuditEntry(generate_id(audit_now), "RiskAssessment",
                                     audit_now, task.tx[1].from, <<>>, <<>>, <<>>,
                                     <<ScoreHundredths(task.risk_score)>>,
                                     {"transaction_analysis"})
                 out == log_entry(compliance_rules, audit_log, indexed_entries,
                                  entry, audit_now)
             IN  IF out.result = "ok"
                 THEN /\ audit_log' = out.log
                      /\ indexed_entries' = out.indices
                      /\ manager_locks' = locks
                      /\ ManagerGoto(t, "metrics")
                 ELSE /\ UNCHANGED <<audit_log, indexed_entries>>
                      /\ ManagerReturn(t, locks,
                            [NoManagerResult EXCEPT !.kind = "error",
                                                    !.tx = task.tx])
       \/ ManagerWaitFor(t, "threat_level", "write")

\* lines 263-289: update_security_metrics takes security_metrics.write(),
\* then the result is built
AnalyzeMetrics(t) ==
    /\ ManagerAt(t, "analyze_transaction", "metrics")
    /\ ManagerQuiet
    /\ \/ /\ CanAcquire(manager_locks, "security_metrics", t, "write")
          /\ UNCHANGED <<audit_vars, risk_vars, emergency_vars, threat_level>>
          /\ LET task == manager_tasks[t]
             IN  /\ security_metrics' = [security_metrics EXCEPT
                       !.transactions_analyzed = @ + 1,
                       !.threats_detected = IF task.threats > 0 THEN @ + 1 ELSE @]
                 /\ ManagerReturn(t, Dequeued(manager_locks, "security_metrics", t),
                       [kind |-> "analysis", tx |-> task.tx,
                        risk_score |-> task.risk_score,
                        threats |-> task.threats,
                        security_status |-> StatusOfScore(task.risk_score),
                        should_proceed |->
                            ShouldProceed(task.risk_score, manager_config)])
       \/ ManagerWaitFor(t, "security_metrics", "write")

\* handle_emergency, line 314: trigger_alert
EmergencyTrigger(t) ==
    /\ ManagerAt(t, "handle_emergency", "trigger")
    /\ ManagerQuiet
    /\ UNCHANGED <<audit_vars, risk_vars, security_metrics, threat_level,
                   manager_locks>>
    /\ UNCHANGED <<emergency_procedures, auto_response_enabled, emergency_funds,
                   emergency_contacts, emergency_now, emergency_calls,
                   emergency_last>>
    /\ LET alert == manager_tasks[t].alert[1]
       IN  \E order \in IterationOrders(DOMAIN emergency_procedures) :
             LET selected == IF auto_response_enabled
                             THEN ActionsToExecute(order, emergency_procedures, alert)
                             ELSE <<>>
                 run == RunActions(selected, emergency_breakers, emergency_funds,
                                   emergency_now)
             IN  /\ active_alerts' = (alert.id :> alert) @@ active_alerts
                 /\ emergency_breakers' = run.breakers
                 /\ response_history' = log_emergency_incident(response_history,
                                                               alert, emergency_now)
    /\ ManagerGoto(t, "threat_level")

\* line 317: *self.threat_level.write().await = ThreatLevel::Critical
EmergencyThreatLevel(t) ==
    /\ ManagerAt(t, "handle_emergency", "threat_level")
    /\ ManagerQuiet
    /\ \/ /\ CanAcquire(manager_locks, "threat_level", t, "write")
          /\ manager_locks' = Dequeued(manager_locks, "threat_level", t)
          /\ threat_level' = "Critical"
          /\ ManagerGoto(t, "config")
          /\ UNCHANGED security_metrics
          /\ UNCHANGED <<audit_vars, risk_vars, emergency_vars>>
       \/ ManagerWaitFor(t, "threat_level", "write")

\* lines 320-328: config.read() for the condition only, then
\* log_security_event
EmergencyConfig(t) ==
    /\ ManagerAt(t, "handle_emergency", "config")
    /\ ManagerQuiet
    /\ UNCHANGED <<risk_vars, emergency_vars, threat_level, security_metrics>>
    /\ \/ /\ CanAcquire(manager_locks, "config", t, "read")
          /\ UNCHANGED <<compliance_rules, audit_now, audit_calls, audit_last>>
          /\ LET locks == Dequeued(manager_locks, "config", t)
                 entry == AuditEntry(generate_id(audit_now), "EmergencyAction",
                                     audit_now, <<>>, <<>>, <<>>, <<>>, <<100>>,
                                     {"emergency", "critical"})
                 out == log_entry(compliance_rules, audit_log, indexed_entries,
                                  entry, audit_now)
             IN  IF out.result = "ok"
                 THEN /\ audit_log' = out.log
                      /\ indexed_entries' = out.indices
                      /\ manager_locks' = locks
                      /\ ManagerGoto(t, "metrics")
                 ELSE /\ UNCHANGED <<audit_log, indexed_entries>>
                      /\ ManagerReturn(t, locks,
                            [NoManagerResult EXCEPT !.kind = "error"])
       \/ ManagerWaitFor(t, "config", "read")

\* lines 330-334: update_security_metrics
EmergencyMetrics(t) ==
    /\ ManagerAt(t, "handle_emergency", "metrics")
    /\ ManagerQuiet
    /\ UNCHANGED threat_level
    /\ \/ /\ CanAcquire(manager_locks, "security_metrics", t, "write")
          /\ security_metrics' = [security_metrics EXCEPT
                                     !.emergency_responses = @ + 1]
          /\ ManagerReturn(t, Dequeued(manager_locks, "security_metrics", t),
                [NoManagerResult EXCEPT !.kind = "emergency"])
          /\ UNCHANGED <<audit_vars, risk_vars, emergency_vars>>
       \/ ManagerWaitFor(t, "security_metrics", "write")

\* generate_security_report, line 355: let config = self.config.read().await
ReportConfig(t) ==
    /\ ManagerAt(t, "generate_security_report", "config")
    /\ ManagerQuiet
    /\ \/ /\ CanAcquire(manager_locks, "config", t, "read")
          /\ manager_locks' =
                Holding(Dequeued(manager_locks, "config", t), "config", t)
          /\ ManagerGoto(t, "metrics")
          /\ UNCHANGED <<threat_level, security_metrics>>
          /\ UNCHANGED <<audit_vars, risk_vars, emergency_vars>>
       \/ ManagerWaitFor(t, "config", "read")

\* lines 357-382: the statistics of the modules are read, then
\* let metrics = self.security_metrics.read().await
ReportMetrics(t) ==
    /\ ManagerAt(t, "generate_security_report", "metrics")
    /\ ManagerQuiet
    /\ \/ /\ CanAcquire(manager_locks, "security_metrics", t, "read")
          /\ manager_locks' =
                Holding(Dequeued(manager_locks, "security_metrics", t),
                        "security_metrics", t)
          /\ ManagerGoto(t, "recommendations")
          /\ UNCHANGED <<threat_level, security_metrics>>
          /\ UNCHANGED <<audit_vars, risk_vars, emergency_vars>>
       \/ ManagerWaitFor(t, "security_metrics", "read")

\* lines 390-392 and 444: generate_security_recommendations takes
\* security_metrics.read() while `metrics` is still held, then the report is
\* returned
ReportRecommendations(t) ==
    /\ ManagerAt(t, "generate_security_report", "recommendations")
    /\ ManagerQuiet
    /\ \/ /\ CanAcquire(manager_locks, "security_metrics", t, "read")
          /\ ManagerReturn(t, Dequeued(manager_locks, "security_metrics", t),
                [NoManagerResult EXCEPT !.kind = "report"])
          /\ UNCHANGED <<threat_level, security_metrics>>
          /\ UNCHANGED <<audit_vars, risk_vars, emergency_vars>>
       \/ ManagerWaitFor(t, "security_metrics", "read")

\* get_security_status: threat_level.read(), then the match
StatusThreatLevel(t) ==
    /\ ManagerAt(t, "get_security_status", "threat_level")
    /\ ManagerQuiet
    /\ \/ /\ CanAcquire(manager_locks, "threat_level", t, "read")
          /\ ManagerReturn(t, Dequeued(manager_locks, "threat_level", t),
                [NoManagerResult EXCEPT
                    !.kind = "status",
                    !.security_status = get_security_status(threat_level)])
          /\ UNCHANGED <<threat_level, security_metrics>>
          /\ UNCHANGED <<audit_vars, risk_vars, emergency_vars>>
       \/ ManagerWaitFor(t, "threat_level", "read")

\* lines 206-247 and 287 of analyze_transaction applied to what the detectors
\* and the risk engine returned: mev and defi threats and an overall score
ScoreTransaction(mev, defi, overall) ==
    LET threats == [mev |-> [i \in 1..mev |-> "threat"],
                    defi |-> [i \in 1..defi |-> "threat"]]
        score == ManagerRiskScore(threats, overall)
    IN  /\ verdict' = [mev |-> mev, defi |-> defi, overall |-> overall,
                       risk_score |-> score,
                       security_status |-> StatusOfScore(score),
                       should_proceed |-> ShouldProceed(score, manager_config),
                       scored |-> TRUE]
        /\ UNCHANGED <<manager_config, threat_level, security_metrics,
                       manager_tasks, manager_locks, manager_calls>>
        /\ UNCHANGED <<oracle_vars, rate_vars, audit_vars, risk_vars,
                       emergency_vars, task_vars, mev_vars, defi_vars, query_vars>>

VerdictNext ==
    \E mev \in 0..MaxMevThreats, defi \in 0..MaxDefiThreats,
       overall \in OverallScores : ScoreTransaction(mev, defi, overall)

ManagerTaskStep(t) ==
    \/ \E gas \in ManagerChainGas : AnalyzeConfig(t, gas)
    \/ AnalyzeThreatLevel(t)
    \/ AnalyzeMetrics(t)
    \/ EmergencyTrigger(t)
    \/ EmergencyThreatLevel(t)
    \/ EmergencyConfig(t)
    \/ EmergencyMetrics(t)
    \/ ReportConfig(t)
    \/ ReportMetrics(t)
    \/ ReportRecommendations(t)
    \/ StatusThreatLevel(t)

\* AdvancedSecurityManager::new
ManagerNew ==
    /\ manager_config = [risk_tolerance |-> DefaultRiskTolerance]
    /\ threat_level = "Low"
    /\ security_metrics = [transactions_analyzed |-> 0, threats_detected |-> 0,
                           emergency_responses |-> 0]
    /\ manager_tasks = [t \in Tasks |-> NoManagerTask]
    /\ manager_locks = [l \in ManagerLockNames |-> [readers |-> {}, queue |-> <<>>]]
    /\ manager_calls = 0
    /\ verdict = NoVerdict

ManagerInit ==
    /\ manager_config \in [risk_tolerance : RiskTolerances]
    /\ threat_level = "Low"
    /\ security_metrics = [transactions_analyzed |-> 0, threats_detected |-> 0,
                           emergency_responses |-> 0]
    /\ manager_tasks = [t \in Tasks |-> NoManagerTask]
    /\ manager_locks = [l \in ManagerLockNames |-> [readers |-> {}, queue |-> <<>>]]
    /\ manager_calls = 0
    /\ verdict = NoVerdict

ManagerNext ==
    \/ \E t \in Tasks, tx \in ManagerRequests : CallAnalyzeTransaction(t, tx)
    \/ \E t \in Tasks, alert \in ManagerAlerts : CallHandleEmergency(t, alert)
    \/ \E t \in Tasks : CallGenerateSecurityReport(t)
    \/ \E t \in Tasks : CallGetSecurityStatus(t)
    \/ \E t \in Tasks : ManagerTaskStep(t)

EngineNew == MevNew /\ DefiNew /\ QueryNew /\ ManagerNew

(***************************************************************************)
(* The whole program, and one specification for each component             *)
(***************************************************************************)
TasksNew == OracleTasksNew /\ AuditTasksNew

Init == OracleNew /\ RateInit /\ AuditNew /\ RiskNew /\ EmergencyNew
            /\ TasksNew /\ EngineNew

Next == \/ OracleNext \/ RateNext \/ AuditNext \/ RiskNext \/ EmergencyNext
        \/ OracleTasksNext \/ AuditTasksNext
        \/ MevNext \/ DefiNext \/ QueryNext \/ ManagerNext \/ VerdictNext

Spec == Init /\ [][Next]_vars

\* one component runs, the others stay as constructed
InitOracle == OracleInit /\ RateInit /\ AuditNew /\ RiskNew /\ EmergencyNew
            /\ TasksNew /\ EngineNew

SpecOracle == InitOracle /\ [][OracleNext]_vars

InitRate == OracleNew /\ RateInit /\ AuditNew /\ RiskNew /\ EmergencyNew
            /\ TasksNew /\ EngineNew

SpecRate == InitRate /\ [][RateNext]_vars

InitAudit == OracleNew /\ RateInit /\ AuditInit /\ RiskNew /\ EmergencyNew
            /\ TasksNew /\ EngineNew

SpecAudit == InitAudit /\ [][AuditNext]_vars

InitRisk == OracleNew /\ RateInit /\ AuditNew /\ RiskInit /\ EmergencyNew
            /\ TasksNew /\ EngineNew

SpecRisk == InitRisk /\ [][RiskNext]_vars

InitEmergency == OracleNew /\ RateInit /\ AuditNew /\ RiskNew /\ EmergencyInit
            /\ TasksNew /\ EngineNew

SpecEmergency == InitEmergency /\ [][EmergencyNext]_vars

\* concurrent calls on one OracleSecurity
InitOracleTasks == OracleTasksInit /\ RateInit /\ AuditNew /\ RiskNew
                   /\ EmergencyNew /\ AuditTasksNew /\ EngineNew

SpecOracleTasks == InitOracleTasks /\ [][OracleTasksNext]_vars

\* concurrent calls on one AuditTrail
InitAuditTasks == OracleNew /\ RateInit /\ AuditInit /\ RiskNew /\ EmergencyNew
                  /\ OracleTasksNew /\ AuditTasksNew /\ EngineNew

SpecAuditTasks == InitAuditTasks /\ [][AuditTasksNext]_vars

\* MevProtection alone
InitMev == OracleNew /\ RateInit /\ AuditNew /\ RiskNew /\ EmergencyNew
            /\ TasksNew /\ MevNew /\ DefiNew /\ QueryNew /\ ManagerNew

SpecMev == InitMev /\ [][MevNext]_vars

\* the threat detectors and position monitor of DeFiSecurity alone
InitDefi == OracleNew /\ RateInit /\ AuditNew /\ RiskNew /\ EmergencyNew
            /\ TasksNew /\ MevNew /\ DefiInit /\ QueryNew /\ ManagerNew

SpecDefi == InitDefi /\ [][DefiNext]_vars

\* AuditTrail with queries between the logging calls
InitAuditQuery == OracleNew /\ RateInit /\ AuditInit /\ RiskNew /\ EmergencyNew
            /\ TasksNew /\ MevNew /\ DefiNew /\ QueryNew /\ ManagerNew

AuditQueryNext == AuditNext \/ QueryNext

SpecAuditQuery == InitAuditQuery /\ [][AuditQueryNext]_vars

\* concurrent calls on one AdvancedSecurityManager
InitManager == OracleNew /\ RateInit /\ AuditNew /\ RiskNew /\ EmergencyNew
            /\ TasksNew /\ MevNew /\ DefiNew /\ QueryNew /\ ManagerInit

SpecManager == InitManager /\ [][ManagerNext]_vars

\* the scoring of analyze_transaction alone, over every number of threats the
\* detectors can return
SpecVerdict == InitManager /\ [][VerdictNext]_vars

SpecManagerFair ==
    SpecManager /\ \A t \in Tasks : WF_vars(ManagerTaskStep(t))

\* the tokio runtime keeps polling every task that can make progress: a step
\* of a call that stays possible is eventually taken
SpecOracleTasksFair ==
    SpecOracleTasks /\ \A t \in Tasks : WF_vars(OracleTaskStep(t))

(***************************************************************************)
(* Claims about OracleSecurity                                             *)
(***************************************************************************)
\* the step is a validate_price call for source o
OracleValidateStep(o) ==
    /\ oracle_calls' = oracle_calls + 1
    /\ oracle_last'.oracle = o

\* in the current state source o is registered and its breaker is Triggered
\* with its cooldown still running
BreakerLatched(o) ==
    /\ o \in DOMAIN oracle_configs
    /\ o \in DOMAIN circuit_breakers
    /\ circuit_breakers[o].triggered
    /\ circuit_breakers[o].trigger_time # <<>>
    /\ oracle_now < circuit_breakers[o].trigger_time[1]
                        + circuit_breakers[o].cooldown_period

\* in the current state source o is registered and its breaker is Armed
BreakerArmed(o) ==
    /\ o \in DOMAIN oracle_configs
    /\ o \in DOMAIN circuit_breakers
    /\ ~circuit_breakers[o].triggered

AllPass(validations) ==
    validations # <<>> /\ \A i \in 1..Len(validations) : validations[i]

ExactlyOneFails(validations) ==
    Cardinality({i \in 1..Len(validations) : ~validations[i]}) = 1

\* C1: for a registered source whose breaker is Triggered, a validate_price
\* call made before trigger_time + cooldown returns false at the breaker
\* check: no check is evaluated, no observation is appended to the history,
\* and the breaker's state and trigger_time stay as they were.
C1_TriggeredBreakerRejects ==
    [][\A o \in Oracles :
          (BreakerLatched(o) /\ OracleValidateStep(o)) =>
              /\ oracle_last'.result = "breaker"
              /\ oracle_last'.validations = <<>>
              /\ price_history' = price_history
              /\ circuit_breakers' = circuit_breakers]_vars

\* a call was turned away by a breaker that is still Triggered
C1_Witness ==
    /\ oracle_last.result = "breaker"
    /\ oracle_last.oracle \in DOMAIN circuit_breakers
    /\ circuit_breakers[oracle_last.oracle].triggered

\* C2 as stated: for a registered source whose breaker is Armed,
\* validate_price returns true iff all five checks pass, and a call in which
\* exactly one check fails returns false and appends nothing.
C2_Original ==
    [][\A o \in Oracles :
          (BreakerArmed(o) /\ OracleValidateStep(o)) =>
              /\ (oracle_last'.result = "accepted") <=> AllPass(oracle_last'.validations)
              /\ ExactlyOneFails(oracle_last'.validations) =>
                    /\ oracle_last'.result = "rejected"
                    /\ price_history' = price_history]_vars

\* C2 as amended: for a registered source whose breaker is Armed,
\* validate_price returns true iff all five checks pass and the block-number
\* lookup made while recording the observation succeeds (when it fails the
\* call returns an error and appends nothing); the accepted price is appended
\* to the source's history; a call in which exactly one check fails returns
\* false and appends nothing.
C2_FailClosed ==
    [][\A o \in Oracles :
          (BreakerArmed(o) /\ OracleValidateStep(o)) =>
              /\ (oracle_last'.result = "accepted") <=>
                    (AllPass(oracle_last'.validations) /\ oracle_last'.result # "error")
              /\ oracle_last'.result = "accepted" =>
                    price_history'[o] = Append(price_history[o],
                                               PriceData(oracle_last'.price, oracle_now))
              /\ oracle_last'.result \in {"error", "rejected"} =>
                    price_history' = price_history
              /\ ExactlyOneFails(oracle_last'.validations) =>
                    /\ oracle_last'.result = "rejected"
                    /\ price_history' = price_history]_vars

\* a call was rejected although four of its five checks passed
C2_Witness ==
    /\ oracle_last.result = "rejected"
    /\ ExactlyOneFails(oracle_last.validations)
    /\ ~oracle_last.validations[3]

\* the claim's severity classes, for a candidate p and a reference median m
\* (no recent reference: the deviation counts as 100%)
C3_Severity(p, m) ==
    LET diff == IF p > m THEN p - m ELSE m - p
    IN IF m = 0 THEN "Critical"
       ELSE IF 10 * diff > 5 * m THEN "Critical"
       ELSE IF 10 * diff > 2 * m THEN "High"
       ELSE IF 10 * diff > 1 * m THEN "Medium"
       ELSE "Low"

RateValidateStep == rate_calls' = rate_calls + 1 /\ rate_last'.from \in Senders

\* the call went to a registered protocol and passed the pause, value-cap and
\* function checks, so check_rate_limits answered it
ReachedRateCheck ==
    /\ rate_last'.to # <<>>
    /\ rate_last'.to[1].kind = "address"
    /\ rate_last'.to[1].at \in DOMAIN protocol_configs
    /\ rate_last'.blocked_by \in {"none", "rate"}

\* transactions of the sender recorded within the last 60 s
RecentCount(s) ==
    IF s \in DOMAIN rate_limiter.transaction_counts
    THEN Len(SelectSeq(rate_limiter.transaction_counts[s],
                       LAMBDA t : rate_now - t <= MinuteWindow))
    ELSE 0

\* value of the sender recorded within the last hour
RecentValue(s) ==
    IF s \in DOMAIN rate_limiter.value_sums
    THEN SumValues(SelectSeq(rate_limiter.value_sums[s],
                             LAMBDA e : rate_now - e[1] <= HourWindow))
    ELSE 0

C4_FirstNPass ==
    [][RateValidateStep /\ ReachedRateCheck =>
        LET s == rate_last'.from
            limits == protocol_configs[rate_last'.to[1].at].rate_limits
        IN (/\ ~InCooldown(rate_limiter, s, rate_now)
            /\ RecentCount(s) < limits.max_transactions_per_minute
            /\ RecentValue(s) + rate_last'.value <= limits.max_value_per_hour)
           => rate_last'.allowed]_vars

C4_NextStartsCooldown ==
    [][RateValidateStep /\ ReachedRateCheck =>
        LET s == rate_last'.from
            limits == protocol_configs[rate_last'.to[1].at].rate_limits
        IN (/\ ~InCooldown(rate_limiter, s, rate_now)
            /\ RecentCount(s) >= limits.max_transactions_per_minute)
           => /\ ~rate_last'.allowed
              /\ s \in DOMAIN rate_limiter'.cooldowns
              /\ rate_limiter'.cooldowns[s] = rate_now + limits.cooldown_period]_vars

C4_CooldownRejectsAll ==
    [][RateValidateStep =>
        (InCooldown(rate_limiter, rate_last'.from, rate_now)
            => ~rate_last'.allowed)]_vars

\* C4: with a limit of N transactions per 60 s window the first N transactions
\* of a sender pass the rate check, the (N+1)-th is rejected and starts a
\* cooldown, and until the cooldown expires every further transaction of that
\* sender is rejected by validate_protocol_interaction, whatever its target,
\* value or called function.  The code answers Ok(true) before it looks at the
\* rate limiter when the target is missing, an ENS name or an unregistered
\* address, so the last part does not hold.
C4_Original ==
    [][RateValidateStep =>
        LET s == rate_last'.from
        IN /\ InCooldown(rate_limiter, s, rate_now) => ~rate_last'.allowed
           /\ ReachedRateCheck =>
                LET limits == protocol_configs[rate_last'.to[1].at].rate_limits
                    full == RecentCount(s) >= limits.max_transactions_per_minute
                IN /\ (~InCooldown(rate_limiter, s, rate_now) /\ full)
                        => /\ ~rate_last'.allowed
                           /\ s \in DOMAIN rate_limiter'.cooldowns
                           /\ rate_limiter'.cooldowns[s]
                                 = rate_now + limits.cooldown_period
                   /\ (/\ ~InCooldown(rate_limiter, s, rate_now)
                       /\ ~full
                       /\ RecentValue(s) + rate_last'.value
                            <= limits.max_value_per_hour)
                        => rate_last'.allowed]_vars

(***************************************************************************)
(* Claims about AuditTrail                                                 *)
(***************************************************************************)
\* this step is a logging call
AuditLogStep == audit_calls' = audit_calls + 1

\* some enabled rule with action BlockTransaction matches the entry
BlockingRuleMatches(rules, e) ==
    \E name \in DOMAIN rules :
        /\ rules[name].enabled
        /\ rules[name].action = "BlockTransaction"
        /\ Violation(rules[name], e)

\* some rule matches the entry and would block if it were enabled and blocking
OnlyHarmlessRulesMatch(rules, e) ==
    /\ \E name \in DOMAIN rules : Violation(rules[name], e)
    /\ ~BlockingRuleMatches(rules, e)

\* C5: log_entry is rejected iff at least one enabled compliance rule with
\* action BlockTransaction matches the entry; a rejection leaves the audit log
\* and its indices unchanged; an entry matched only by non-blocking or disabled
\* rules is accepted and appended.
C5_BlockIffBlockingRule ==
    [][AuditLogStep =>
        LET e == audit_last'.entry[1]
            blocking == BlockingRuleMatches(compliance_rules', e)
        IN /\ (audit_last'.result = "blocked") <=> blocking
           /\ blocking => /\ audit_log' = audit_log
                          /\ indexed_entries' = indexed_entries
           /\ ~blocking => /\ audit_log' # <<>>
                           /\ Last(audit_log') = e
                           /\ <<"type", e.entry_type>> \in DOMAIN indexed_entries'
                           /\ Last(indexed_entries'[<<"type", e.entry_type>>]) = e.id]_vars

\* an entry was rejected while the log already held entries, and the table
\* also holds rules that matched without blocking
C5_Witness ==
    /\ audit_last.result = "blocked"
    /\ audit_log # <<>>
    /\ \E name \in DOMAIN compliance_rules :
          /\ compliance_rules[name].action # "BlockTransaction"
          /\ Violation(compliance_rules[name], audit_last.entry[1])

StrictlyIncreasing(log) ==
    \A i \in 1..(Len(log) - 1) : log[i].timestamp < log[i + 1].timestamp

\* the entry is still inside its own retention window
InsideOwnWindow(e, now) ==
    IF UnwrapOr(e.risk_score, 0) > RetainRiskAbove \/ e.entry_type = "SecurityViolation"
    THEN now - e.timestamp <= high_risk_retention_days
    ELSE now - e.timestamp <= default_retention_days

\* C6: after retention pruning of a log whose entries are in increasing
\* timestamp order, the surviving entries are exactly those still inside their
\* own retention window: 90 days for a normal entry, 365 days for a high-risk
\* or SecurityViolation entry.  The code never reads high_risk_retention_days
\* and stops at the first retained entry, so this does not hold.
C6_Original ==
    [][(AuditLogStep /\ audit_last'.result = "ok") =>
        LET pushed == Append(audit_log, audit_last'.entry[1])
        IN StrictlyIncreasing(pushed) =>
             \A i \in 1..Len(pushed) :
                (\E j \in 1..Len(audit_log') : audit_log'[j].id = pushed[i].id)
                    <=> InsideOwnWindow(pushed[i], audit_now)]_vars

(***************************************************************************)
(* Claims about RiskEngine                                                 *)
(***************************************************************************)
\* this step returned an assessment
RiskAssessedStep == risk_calls' = risk_calls + 1 /\ risk_last'.ok

\* sums over the factors, in hundredths and in tenths
SigmaSeverityWeight(fs) == SumSeq([i \in 1..Len(fs) |-> fs[i].severity * fs[i].weight])

SigmaWeight(fs) == SumSeq([i \in 1..Len(fs) |-> fs[i].weight])

\* factors (severity 0.8, weight 0.8) and (severity 0.2, weight 0.7)
IsScenarioD(fs) ==
    /\ Len(fs) = 2
    /\ fs[1].severity = 8 /\ fs[1].weight = 8
    /\ fs[2].severity = 2 /\ fs[2].weight = 7

\* C7: for every list of risk factors with severity in [0,1] and weight > 0
\* the overall score equals sum(severity * weight) / sum(weight) and lies in
\* [0,1]; it is 0 for the empty list; factors (0.8, 0.8) and (0.2, 0.7) give
\* 0.52.
C7_ScoreIsWeightedMean ==
    (risk_last.kind # "none" /\ risk_last.ok) =>
        LET fs == risk_last.risk_factors
            score == risk_last.overall_risk_score
        IN /\ \A i \in 1..Len(fs) : fs[i].severity \in 0..10 /\ fs[i].weight > 0
           /\ score[2] > 0
           /\ 0 <= score[1] /\ score[1] <= score[2]
           /\ fs = <<>> => score[1] = 0
           /\ fs # <<>> =>
                score[1] * (10 * SigmaWeight(fs)) = score[2] * SigmaSeverityWeight(fs)
           /\ IsScenarioD(fs) => score[1] * 100 = 52 * score[2]

\* the score of Scenario D has been computed
C7_Witness ==
    /\ risk_last.kind = "factors"
    /\ IsScenarioD(risk_last.risk_factors)
    /\ risk_last.overall_risk_score[1] * 100 = 52 * risk_last.overall_risk_score[2]

\* score a <= score b
ScoreLE(a, b) == a[1] * b[2] <= b[1] * a[2]

\* tenths / 10 <= score
ScoreAtLeast(score, tenths) == tenths * score[2] <= score[1] * 10

LevelRank(level) ==
    CASE level = "VeryLow" -> 1 [] level = "Low" -> 2 [] level = "Medium" -> 3
      [] level = "High" -> 4 [] level = "VeryHigh" -> 5

\* the level is the one the thresholds 0.2, 0.4, 0.6, 0.8 give for the score
LevelMatchesScore(a) ==
    LET score == a.overall_risk_score
        rank == LevelRank(a.risk_level)
    IN /\ (rank = 1) <=> ~ScoreAtLeast(score, 2)
       /\ (rank = 2) <=> (ScoreAtLeast(score, 2) /\ ~ScoreAtLeast(score, 4))
       /\ (rank = 3) <=> (ScoreAtLeast(score, 4) /\ ~ScoreAtLeast(score, 6))
       /\ (rank = 4) <=> (ScoreAtLeast(score, 6) /\ ~ScoreAtLeast(score, 8))
       /\ (rank = 5) <=> ScoreAtLeast(score, 8)

\* the higher score never has the lower level
LevelsMonotonic(a, b) ==
    /\ ScoreLE(a.overall_risk_score, b.overall_risk_score)
          => LevelRank(a.risk_level) <= LevelRank(b.risk_level)
    /\ ScoreLE(b.overall_risk_score, a.overall_risk_score)
          => LevelRank(b.risk_level) <= LevelRank(a.risk_level)

\* C8: the risk level is a step function of the overall score (< 0.2 VeryLow,
\* < 0.4 Low, < 0.6 Medium, < 0.8 High, otherwise VeryHigh), a higher score
\* never yields a lower level, and every assessment returned by
\* assess_transaction_risk or assess_portfolio_risk carries the level of its
\* own score.
C8_LevelIsStepOfScore ==
    [][RiskAssessedStep =>
        /\ LevelMatchesScore(risk_last')
        /\ (risk_last.kind # "none" /\ risk_last.ok) => LevelsMonotonic(risk_last, risk_last')
        /\ \A i \in 1..Len(historical_assessments') :
              /\ LevelMatchesScore(historical_assessments'[i])
              /\ LevelsMonotonic(historical_assessments'[i], risk_last')]_vars

\* a portfolio assessment of level Medium was returned after a transaction
\* assessment of a lower level
C8_Witness ==
    /\ risk_last.kind = "portfolio"
    /\ risk_last.risk_level = "Medium"
    /\ \E i \in 1..Len(historical_assessments) :
          historical_assessments[i].risk_level \in {"VeryLow", "Low"}

(***************************************************************************)
(* Claims about EmergencyResponse                                          *)
(***************************************************************************)
\* this step is a trigger_alert call
TriggerAlertStep == emergency_calls' = emergency_calls + 1 /\ emergency_last'.result = "ok"

\* the registered procedures with a trigger condition that matches the alert
MatchingProcedures(alert) ==
    { name \in DOMAIN emergency_procedures :
        \E i \in 1..Len(emergency_procedures[name].trigger_conditions) :
           condition_matches_alert(emergency_procedures[name].trigger_conditions[i],
                                   alert) }

\* the actions of the procedures of order, one procedure after the other
RECURSIVE ActionsOf(_)
ActionsOf(order) ==
    IF order = <<>> THEN <<>>
    ELSE emergency_procedures[Head(order)].automatic_actions \o ActionsOf(Tail(order))

\* the actions that were executed, in the order they were executed
Executed(attempted) == [i \in 1..Len(attempted) |-> attempted[i].action]

\* C9: trigger_alert executes automatic actions iff auto-response is enabled
\* and the alert level is Critical or Emergency, and then it executes the
\* actions of every registered procedure whose trigger conditions match the
\* alert; for Info and Warning alerts no action is executed and no circuit
\* breaker changes state.
C9_AutoActionsIffEnabledAndHigh ==
    [][TriggerAlertStep =>
        LET alert == emergency_last'.alert[1]
            executed == Executed(emergency_last'.attempted)
        IN IF auto_response_enabled /\ alert.level \in {"Critical", "Emergency"}
           THEN \E order \in IterationOrders(MatchingProcedures(alert)) :
                   executed = ActionsOf(order)
           ELSE /\ executed = <<>>
                /\ emergency_breakers' = emergency_breakers]_vars

\* a Critical or Emergency alert ran the actions of two procedures and
\* triggered the breaker of p1
C9_Witness ==
    /\ emergency_last.result = "ok"
    /\ emergency_last.alert[1].level \in {"Critical", "Emergency"}
    /\ Len(emergency_last.attempted) > 3
    /\ "p1" \in DOMAIN emergency_breakers
    /\ emergency_breakers["p1"].triggered

\* the breakers after the first n attempted actions have run
RECURSIVE BreakersAfter(_, _, _)
BreakersAfter(attempted, n, breakers) ==
    IF n = 0 THEN breakers
    ELSE LET before == BreakersAfter(attempted, n - 1, breakers)
             a == attempted[n].action
         IN IF a.op = "PauseProtocol" /\ a.target \in DOMAIN before
            THEN [before EXCEPT ![a.target].triggered = TRUE,
                                ![a.target].trigger_time = <<emergency_now>>]
            ELSE before

\* C10: during automatic response every action selected for execution is
\* attempted exactly once, in order; a failing action, such as an
\* EmergencyWithdraw of more than the available emergency funds, neither keeps
\* the remaining actions from running nor makes trigger_alert fail.
C10_EveryActionAttemptedOnce ==
    [][(emergency_calls' = emergency_calls + 1 /\ emergency_last'.alert # <<>>) =>
        LET selected == emergency_last'.selected
            attempted == emergency_last'.attempted
        IN /\ emergency_last'.result = "ok"
           /\ Len(attempted) = Len(selected)
           /\ \A i \in 1..Len(selected) :
                 /\ attempted[i].action = selected[i]
                 /\ attempted[i].ok <=>
                       ~(/\ selected[i].op = "EmergencyWithdraw"
                         /\ selected[i].target \in DOMAIN emergency_funds
                         /\ emergency_funds[selected[i].target] < selected[i].amount)
           /\ emergency_breakers' =
                 BreakersAfter(attempted, Len(selected), emergency_breakers)]_vars

\* an EmergencyWithdraw failed, the PauseProtocol after it still triggered the
\* breaker, and trigger_alert returned Ok
C10_Witness ==
    /\ emergency_last.result = "ok"
    /\ \E i \in 1..(Len(emergency_last.attempted) - 1) :
          /\ emergency_last.attempted[i].action.op = "EmergencyWithdraw"
          /\ ~emergency_last.attempted[i].ok
          /\ emergency_last.attempted[i + 1].action.op = "PauseProtocol"
          /\ emergency_last.attempted[i + 1].ok
    /\ "p1" \in DOMAIN emergency_breakers
    /\ emergency_breakers["p1"].triggered
    /\ emergency_breakers["p1"].trigger_time = <<emergency_now>>

(***************************************************************************)
(* Claims about the oracle breaker's cooldown                              *)
(***************************************************************************)
\* in the current state source o is registered and its breaker is Triggered
\* with a trigger_time
BreakerTriggered(o) ==
    /\ o \in DOMAIN oracle_configs
    /\ o \in DOMAIN circuit_breakers
    /\ circuit_breakers[o].triggered
    /\ circuit_breakers[o].trigger_time # <<>>

\* the instant trigger_time + cooldown of a Triggered breaker
ReleaseInstant(breaker) == breaker.trigger_time[1] + breaker.cooldown_period

\* C12 as stated: a query of a Triggered breaker made at or before
\* trigger_time + cooldown reports Triggered and leaves the breaker as it is;
\* a query made strictly after that instant is not turned away by the
\* breaker, which it resets to Armed with trigger_time cleared (the rest of
\* that same call may trip it again at the time of the call).
C12_Original ==
    [][\A o \in Oracles :
          (BreakerTriggered(o) /\ OracleValidateStep(o)) =>
              IF oracle_now <= ReleaseInstant(circuit_breakers[o])
              THEN /\ oracle_last'.result = "breaker"
                   /\ circuit_breakers' = circuit_breakers
              ELSE /\ oracle_last'.result # "breaker"
                   /\ \/ circuit_breakers'[o] =
                            [circuit_breakers[o] EXCEPT !.triggered = FALSE,
                                                        !.trigger_time = <<>>]
                      \/ circuit_breakers'[o] =
                            [circuit_breakers[o] EXCEPT
                                 !.trigger_time = <<oracle_now>>]]_vars

\* the part of C12 the code does keep: the same with the boundary instant
\* itself counted as elapsed (a query strictly before trigger_time + cooldown
\* reports Triggered)
C12_ElapsedAtBoundary ==
    [][\A o \in Oracles :
          (BreakerTriggered(o) /\ OracleValidateStep(o)) =>
              IF oracle_now < ReleaseInstant(circuit_breakers[o])
              THEN /\ oracle_last'.result = "breaker"
                   /\ circuit_breakers' = circuit_breakers
              ELSE /\ oracle_last'.result # "breaker"
                   /\ \/ circuit_breakers'[o] =
                            [circuit_breakers[o] EXCEPT !.triggered = FALSE,
                                                        !.trigger_time = <<>>]
                      \/ circuit_breakers'[o] =
                            [circuit_breakers[o] EXCEPT
                                 !.trigger_time = <<oracle_now>>]]_vars

(***************************************************************************)
(* Claims about concurrent calls on one OracleSecurity                     *)
(***************************************************************************)
\* task t is inside a validate_price call
InValidatePrice(t) == oracle_tasks[t].op = "validate_price"

\* the call task t was running has returned
Returned(t) == oracle_tasks[t].op = "idle"

\* C13 as stated: every validate_price call eventually returns, whatever
\* register_oracle, validate_price and get_statistics calls run beside it:
\* no call waits forever for one of the validator's reader-writer locks.
C13_Original == \A t \in Tasks : InValidatePrice(t) ~> Returned(t)

\* the state the calls cannot leave: task t holds the `configs` read guard of
\* validate_price and waits for oracle_configs.read() again behind a
\* register_oracle that waits for oracle_configs.write()
ReadBehindOwnWriter(t) ==
    /\ At(t, "validate_price", "correlation")
    /\ t \in oracle_locks["oracle_configs"].readers
    /\ Queued(oracle_locks, "oracle_configs", t)
    /\ oracle_locks["oracle_configs"].queue[1].mode = "write"

\* a step keeps or postpones the release instant of every breaker of the map
\* that is Triggered before and after it
ReleaseNotEarlier(before, after) ==
    \A r \in DOMAIN before \cap DOMAIN after :
        (/\ before[r].triggered /\ before[r].trigger_time # <<>>
         /\ after[r].triggered /\ after[r].trigger_time # <<>>)
            => ReleaseInstant(after[r]) >= ReleaseInstant(before[r])

\* C11: tripping a breaker that is already Triggered never shortens its
\* cooldown: over any sequence of trips the instant trigger_time + cooldown
\* at which the breaker may become Armed again never moves earlier (oracle
\* breakers and the dispatcher's breakers alike).
C11_ReleaseNeverEarlier ==
    [][/\ ReleaseNotEarlier(circuit_breakers, circuit_breakers')
       /\ ReleaseNotEarlier(emergency_breakers, emergency_breakers')]_vars

\* a validate_price call tripped, at a later clock reading, a breaker another
\* call had already tripped: its release instant moved later
C11_Witness ==
    \E t \in Tasks :
        /\ oracle_tasks[t].result = "rejected"
        /\ oracle_tasks[t].retrip
        /\ circuit_breakers["o1"].triggered
        /\ circuit_breakers["o1"].trigger_time = <<oracle_now>>
        /\ oracle_now > 0

\* the step appends an observation to the history of source o
AppendsObservation(o) ==
    /\ o \in DOMAIN price_history
    /\ o \in DOMAIN price_history'
    /\ Len(price_history'[o]) > Len(price_history[o])

OrderedByTimestamp(h) ==
    \A i \in 1..(Len(h) - 1) : h[i].timestamp <= h[i + 1].timestamp

\* the step is the return of a validate_price call of task t with Ok(true)
AcceptedBy(t) ==
    /\ InValidatePrice(t)
    /\ oracle_tasks'[t].result = "accepted"
    /\ Returned(t)'

\* C17 as stated: after any sequence and any interleaving of validate_price
\* calls a source's history never holds more than 1,000 observations and is
\* ordered by non-decreasing timestamp; it changes only by a registration
\* that empties it or by the append of an accepted call's observation, which
\* on overflow evicts from the front.
C17_Original ==
    [][\A o \in Oracles : o \in DOMAIN price_history' =>
          /\ Len(price_history'[o]) <= HistoryCapacity
          /\ OrderedByTimestamp(price_history'[o])
          /\ (o \in DOMAIN price_history /\ price_history'[o] # price_history[o]) =>
                \/ price_history'[o] = <<>>
                \/ \E t \in Tasks :
                      /\ AcceptedBy(t)
                      /\ oracle_tasks[t].oracle = o
                      /\ price_history'[o] = TrimFront(
                             Append(price_history[o],
                                    PriceData(oracle_tasks[t].price,
                                              oracle_tasks[t].timestamp)),
                             HistoryCapacity)]_vars

\* the parts of C17 that hold under every interleaving: everything but the
\* order of the timestamps
C17_BoundedAcceptedOnly ==
    [][\A o \in Oracles : o \in DOMAIN price_history' =>
          /\ Len(price_history'[o]) <= HistoryCapacity
          /\ (o \in DOMAIN price_history /\ price_history'[o] # price_history[o]) =>
                \/ price_history'[o] = <<>>
                \/ \E t \in Tasks :
                      /\ AcceptedBy(t)
                      /\ oracle_tasks[t].oracle = o
                      /\ price_history'[o] = TrimFront(
                             Append(price_history[o],
                                    PriceData(oracle_tasks[t].price,
                                              oracle_tasks[t].timestamp)),
                             HistoryCapacity)]_vars

(***************************************************************************)
(* Claims about the audit log's order and ids                              *)
(***************************************************************************)
\* C15 as stated: in every reachable state, also after any interleaving of
\* concurrent log_security_event, log_transaction and log_entry calls, the
\* audit log is ordered by non-decreasing entry timestamp.
C15_Original == OrderedByTimestamp(audit_log)

\* the entries of the log whose id generate_id assigned
GeneratedIds(log) == {i \in 1..Len(log) : log[i].id[1] = "audit"}

\* C16 as stated: any two entries whose id generate_id assigned have
\* different ids, also when both were created at the same clock reading.
C16_Original ==
    \A i, j \in GeneratedIds(audit_log) :
        i # j => audit_log[i].id # audit_log[j].id

(***************************************************************************)
(* Claims about alerts and the dispatcher's breakers                       *)
(***************************************************************************)
\* the step takes alert id out of the active set
LeavesActiveSet(id) ==
    id \in DOMAIN active_alerts /\ id \notin DOMAIN active_alerts'

\* the step is a resolve_alert call for the active alert id: the only
\* response record with the resolution note is appended for it
ResolveAlertStep(id) ==
    /\ id \in DOMAIN active_alerts
    /\ emergency_calls' = emergency_calls + 1
    /\ Len(response_history') = Len(response_history) + 1
    /\ Last(response_history') = ResponseRecord(id, emergency_now, "resolved")

\* the alert as an archive would hold it once resolved at time now
ResolvedAlert(alert, now) == [alert EXCEPT !.resolved_at = <<now>>]

\* what the component still holds after the step: active alerts and history
Recorded ==
    {active_alerts'[id] : id \in DOMAIN active_alerts'}
        \cup {response_history'[i] : i \in 1..Len(response_history')}

\* C18 as stated: an alert stays in the active set from its trigger_alert
\* until resolve_alert is called with its id; resolve_alert removes it from
\* the active set and keeps it archived with resolved_at set to the
\* resolution time.
C18_Original ==
    [][\A id \in AlertIds :
          /\ LeavesActiveSet(id) <=> ResolveAlertStep(id)
          /\ ResolveAlertStep(id) =>
                ResolvedAlert(active_alerts[id], emergency_now) \in Recorded]_vars

\* the part of C18 the code keeps: an alert leaves the active set exactly by
\* resolve_alert with its id, which leaves a response record with the alert's
\* id and the resolution time
C18_ActiveUntilResolved ==
    [][\A id \in AlertIds : LeavesActiveSet(id) <=> ResolveAlertStep(id)]_vars

\* get_statistics: the breakers counted as active_circuit_breakers
active_circuit_breakers(breakers) ==
    {r \in DOMAIN breakers : breakers[r].triggered}

\* the step is a trigger_alert call whose automatic response paused resource r
PausedBy(r) ==
    /\ TriggerAlertStep
    /\ \E i \in 1..Len(emergency_last'.attempted) :
          /\ emergency_last'.attempted[i].action.op = "PauseProtocol"
          /\ emergency_last'.attempted[i].action.target = r

C19_TripsAndNeverEarly ==
    [][\A r \in DOMAIN emergency_breakers :
          /\ PausedBy(r) =>
                /\ emergency_breakers'[r].triggered
                /\ emergency_breakers'[r].trigger_time = <<emergency_now>>
          /\ (emergency_breakers[r].triggered /\ ~emergency_breakers'[r].triggered)
                => emergency_now >= ReleaseInstant(emergency_breakers[r])]_vars

(***************************************************************************)
(* Claims about the hourly value limit                                     *)
(***************************************************************************)
\* the call is answered by check_rate_limits outside a cooldown, with room in
\* the per-minute count, and would lift the sender's value of the last hour
\* above max_value_per_hour
OverHourlyValue ==
    LET s == rate_last'.from
        limits == protocol_configs[rate_last'.to[1].at].rate_limits
    IN /\ ~InCooldown(rate_limiter, s, rate_now)
       /\ RecentCount(s) < limits.max_transactions_per_minute
       /\ RecentValue(s) + rate_last'.value > limits.max_value_per_hour

\* C20 as stated: a transaction that would push the sender's cumulative value
\* of the rolling 60-minute window above max_value_per_hour is rejected and
\* applies a cooldown to the sender, and while a cooldown runs every
\* transaction of the sender that reaches the rate check is rejected.
C20_Original ==
    [][(RateValidateStep /\ ReachedRateCheck) =>
          /\ OverHourlyValue =>
                /\ ~rate_last'.allowed
                /\ InCooldown(rate_limiter', rate_last'.from, rate_now)
          /\ InCooldown(rate_limiter, rate_last'.from, rate_now)
                => ~rate_last'.allowed]_vars

\* the part of C20 the code keeps: the transaction over the hourly value is
\* rejected and leaves the rate limiter's record of the sender as it was
C20_RejectedWithoutCooldown ==
    [][(RateValidateStep /\ ReachedRateCheck /\ OverHourlyValue) =>
          /\ ~rate_last'.allowed
          /\ rate_limiter'.cooldowns = rate_limiter.cooldowns]_vars

(***************************************************************************)
(* Claims about the protocol rules of validate_protocol_interaction        *)
(***************************************************************************)
\* the call targets the address of a registered protocol
TargetsRegistered ==
    /\ rate_last'.to # <<>>
    /\ rate_last'.to[1].kind = "address"
    /\ rate_last'.to[1].at \in DOMAIN protocol_configs

\* the sender of the call is within the protocol's rate limits: no cooldown,
\* room in the minute's count and in the hour's value
WithinRateLimits ==
    LET s == rate_last'.from
        limits == protocol_configs[rate_last'.to[1].at].rate_limits
    IN /\ ~InCooldown(rate_limiter, s, rate_now)
       /\ RecentCount(s) < limits.max_transactions_per_minute
       /\ RecentValue(s) + rate_last'.value <= limits.max_value_per_hour

\* C21: for a registered protocol and a sender within its rate limits,
\* validate_protocol_interaction rejects iff the protocol is paused, or the
\* value is strictly greater than the cap, or the allow-list is non-empty and
\* the selector of the called function is not in it.
C21_RejectsIffRuleBroken ==
    [][(RateValidateStep /\ TargetsRegistered /\ WithinRateLimits) =>
          LET config == protocol_configs[rate_last'.to[1].at]
              data == rate_last'.data
          IN ~rate_last'.allowed <=>
                \/ config.emergency_pause
                \/ rate_last'.value > config.max_transaction_value
                \/ /\ data # <<>>
                   /\ config.allowed_functions # {}
                   /\ data[1] \notin config.allowed_functions]_vars

\* a call whose value equals the cap, naming a function, passed a protocol
\* with an empty allow-list
C21_Witness ==
    /\ rate_last.allowed
    /\ rate_last.to = <<[kind |-> "address", at |-> "p1"]>>
    /\ "p1" \in DOMAIN protocol_configs
    /\ rate_last.value = protocol_configs["p1"].max_transaction_value
    /\ protocol_configs["p1"].allowed_functions = {}
    /\ rate_last.data # <<>>

(***************************************************************************)
(* Claims about MevProtection                                              *)
(***************************************************************************)
\* this step is an analyze_transaction call
MevAnalyzeStep == mev_calls' = mev_calls + 1 /\ mev_last'.call = mev_calls'

\* the threats of the given type in a result
ThreatsOf(threats, type) ==
    { i \in 1..Len(threats) : threats[i].threat_type = type }

\* the recorded pattern and the candidate are sent to one contract address
SameContract(pattern, tx) ==
    /\ tx.to # <<>>
    /\ tx.to[1].kind = "address"
    /\ pattern.to_address = <<tx.to[1].at>>

SameSelector(pattern, tx) ==
    /\ pattern.data # <<>>
    /\ tx.data # <<>>
    /\ pattern.data[1] = tx.data[1]

\* C22: analyze_transaction reports a Frontrunning threat, with confidence
\* 0.8, exactly when some recorded transaction is at most 30 s old, goes to
\* the candidate's contract with the candidate's selector and pays a strictly
\* higher gas price.
C22_Original ==
    [][MevAnalyzeStep =>
         LET tx == mev_last'.tx[1]
             found == ThreatsOf(mev_last'.threats, "Frontrunning")
         IN  /\ \A i \in found :
                   mev_last'.threats[i].confidence = FrontrunConfidence
             /\ found # {} <=>
                   \E k \in 1..Len(recent_transactions) :
                       LET pattern == recent_transactions[k]
                       IN  /\ mev_now - pattern.timestamp <= FrontrunWindow
                           /\ SameContract(pattern, tx)
                           /\ SameSelector(pattern, tx)
                           /\ pattern.gas_price > tx_gas_price(tx)]_vars

\* C22, the part that holds: a Frontrunning threat has confidence 0.8 and is
\* caused by a recorded transaction at most 30 s old with the candidate's
\* selector and a strictly higher gas price; and a recorded transaction like
\* that, sent to the candidate's contract address, always causes one.
C22_FlagNeedsFreshHigherBid ==
    [][MevAnalyzeStep =>
         LET tx == mev_last'.tx[1]
             found == ThreatsOf(mev_last'.threats, "Frontrunning")
             Fresh(k) ==
                 LET pattern == recent_transactions[k]
                 IN  /\ mev_now - pattern.timestamp <= FrontrunWindow
                     /\ SameSelector(pattern, tx)
                     /\ pattern.gas_price > tx_gas_price(tx)
         IN  /\ \A i \in found :
                   mev_last'.threats[i].confidence = FrontrunConfidence
             /\ found # {} =>
                   \E k \in 1..Len(recent_transactions) : Fresh(k)
             /\ (\E k \in 1..Len(recent_transactions) :
                    Fresh(k) /\ SameContract(recent_transactions[k], tx))
                   => found # {}]_vars

\* a candidate that is sent to no contract address is reported as front-run
C22_FlaggedWithoutContract ==
    /\ mev_last.tx # <<>>
    /\ tx_to(mev_last.tx[1]) = <<>>
    /\ ThreatsOf(mev_last.threats, "Frontrunning") # {}

\* a transaction recorded 31 s ago, and a fresh one at the same gas price,
\* do not cause a report
C22_StaleIgnored ==
    /\ mev_last.tx # <<>>
    /\ mev_last.call = mev_calls
    /\ ThreatsOf(mev_last.threats, "Frontrunning") = {}
    /\ \E k \in 1..Len(recent_transactions) :
          LET pattern == recent_transactions[k]
          IN  /\ mev_now - pattern.timestamp = FrontrunWindow + 1
              /\ SameContract(pattern, mev_last.tx[1])
              /\ SameSelector(pattern, mev_last.tx[1])
              /\ pattern.gas_price > tx_gas_price(mev_last.tx[1])

\* the recorded transaction k is 2 s old and the analysed one goes to the same
\* contract address with the same selector at a gas price 50% higher
OutbidTwoSecondsLater(k, tx) ==
    LET pattern == recent_transactions[k]
    IN  /\ mev_now - pattern.timestamp = 2
        /\ pattern.to_address # <<>>
        /\ SameContract(pattern, tx)
        /\ SameSelector(pattern, tx)
        /\ pattern.gas_price > 0
        /\ 2 * tx_gas_price(tx) = 3 * pattern.gas_price

\* C31: a transaction is recorded and 2 s later a second one to the same
\* contract with the same selector and a 50% higher gas price is analysed:
\* a Frontrunning threat with confidence 0.8 is reported for the second.
C31_Original ==
    [][MevAnalyzeStep =>
         LET tx == mev_last'.tx[1]
         IN  (\E k \in 1..Len(recent_transactions) : OutbidTwoSecondsLater(k, tx))
             => \E i \in ThreatsOf(mev_last'.threats, "Frontrunning") :
                   mev_last'.threats[i].confidence = FrontrunConfidence]_vars

\* what the detector does: a candidate that pays at least as much as every
\* recorded transaction is never reported as front-run
C31_HighestBidNotFlagged ==
    [][MevAnalyzeStep =>
         LET tx == mev_last'.tx[1]
         IN  (\A k \in 1..Len(recent_transactions) :
                 recent_transactions[k].gas_price <= tx_gas_price(tx))
             => ThreatsOf(mev_last'.threats, "Frontrunning") = {}]_vars

\* the scenario of C31 was analysed and no Frontrunning threat was reported
C31_OutbidderNotFlagged ==
    /\ mev_last.tx # <<>>
    /\ mev_last.call = mev_calls
    /\ ThreatsOf(mev_last.threats, "Frontrunning") = {}
    /\ \E k \in 1..Len(recent_transactions) :
          OutbidTwoSecondsLater(k, mev_last.tx[1])

\* the reverse order is reported: the recorded transaction paid 50% more than
\* the one analysed 2 s later, and the recorded sender is named the attacker
C31_LowerBidFlagged ==
    /\ mev_last.tx # <<>>
    /\ mev_last.call = mev_calls
    /\ \E k \in 1..Len(recent_transactions) :
          LET pattern == recent_transactions[k]
          IN  /\ mev_now - pattern.timestamp = 2
              /\ pattern.to_address # <<>>
              /\ SameContract(pattern, mev_last.tx[1])
              /\ SameSelector(pattern, mev_last.tx[1])
              /\ 2 * pattern.gas_price = 3 * tx_gas_price(mev_last.tx[1])
              /\ \E i \in ThreatsOf(mev_last.threats, "Frontrunning") :
                    /\ mev_last.threats[i].confidence = FrontrunConfidence
                    /\ mev_last.threats[i].attacker_address = <<pattern.from_address>>

(***************************************************************************)
(* Claims about the position monitor and the liquidation detector          *)
(***************************************************************************)
MonitorStep ==
    defi_calls' = defi_calls + 1 /\ defi_last' = defi_last

DefiAnalyzeStep ==
    defi_calls' = defi_calls + 1 /\ defi_last'.call = defi_calls'

QueueSet(queue) == { queue[i] : i \in 1..Len(queue) }

FlaggedLiquidation(threats) ==
    \E i \in 1..Len(threats) : threats[i].threat = "LiquidationAttack"

\* a liquidation call is flagged exactly when its target address is queued
LiquidationFlagRule ==
    DefiAnalyzeStep =>
       LET tx == defi_last'.tx[1]
       IN  (tx.data # <<>> /\ tx.data[1] = "f5298acf") =>
              (FlaggedLiquidation(defi_last'.threats) <=>
                  /\ tx.to # <<>>
                  /\ tx.to[1].kind = "address"
                  /\ tx.to[1].at \in QueueSet(liquidation_queue))

AuditStoredStep ==
    /\ audit_calls' = audit_calls + 1
    /\ audit_last'.result = "ok"

\* the entry is older than the default window and not exempt from eviction
Evictable(e, now) ==
    /\ e.timestamp < now - default_retention_days
    /\ ~(\/ (e.risk_score # <<>> /\ e.risk_score[1] > RetainRiskAbove)
         \/ e.entry_type = "SecurityViolation")

\* C24: a logging call leaves the log with the new entry appended and some
\* prefix removed; every removed entry is older than the default window and
\* not exempt, and the first entry kept is inside the window or exempt, so
\* nothing behind a kept entry is ever removed.
C24_EvictsOldestPrefix ==
    [][AuditStoredStep =>
         LET before == Append(audit_log, audit_last'.entry[1])
             k == Len(before) - Len(audit_log')
         IN  /\ k >= 0
             /\ audit_log' = SubSeq(before, k + 1, Len(before))
             /\ \A i \in 1..k : Evictable(before[i], audit_now)
             /\ audit_log' # <<>> => ~Evictable(Head(audit_log'), audit_now)]_vars

\* an exempt entry older than the window heads the log after a logging call
\* made now, and an old entry that is not exempt is kept behind it
C24_Witness ==
    /\ Len(audit_log) >= 3
    /\ audit_log[Len(audit_log)].timestamp = audit_now
    /\ audit_log[1].timestamp < audit_now - default_retention_days
    /\ ~Evictable(audit_log[1], audit_now)
    /\ Evictable(audit_log[2], audit_now)

\* this step is a query_entries call
QueryStep == audit_calls' = audit_calls + 1 /\ query_last'.call = audit_calls'

\* the log entries that satisfy every criterion, newest first
FilteredNewestFirst(log, query) ==
    SortNewestFirst(SelectSeq(log, LAMBDA e : matches_query(e, query)))

\* positions offset .. offset + limit - 1 of a list, counted from 0
Page(list, offset, limit) ==
    SubSeq(list, offset + 1,
           IF offset + limit < Len(list) THEN offset + limit ELSE Len(list))

\* C25 as stated: a query returns the log entries that satisfy every
\* criterion, newest first, and with a limit L and offset O positions
\* O..O+L-1 of that filtered newest-first list.
C25_Original ==
    [][QueryStep =>
         LET query == query_last'.query[1]
             all == FilteredNewestFirst(audit_log, query)
         IN  query_last'.results =
                IF query.limit = <<>> THEN all
                ELSE Page(all, UnwrapOr(query.offset, 0), query.limit[1])]_vars

\* C25, the part that holds: a query without a limit returns exactly the log
\* entries that satisfy every criterion, ordered newest first.
C25_UnpagedIsFilteredNewestFirst ==
    [][QueryStep =>
         LET query == query_last'.query[1]
             results == query_last'.results
             hits == { i \in 1..Len(audit_log) :
                          matches_query(audit_log[i], query) }
         IN  query.limit = <<>> =>
                /\ Len(results) = Cardinality(hits)
                /\ { results[i] : i \in 1..Len(results) } =
                      { audit_log[i] : i \in hits }
                /\ \A i \in 1..Len(results) - 1 :
                      results[i].timestamp >= results[i + 1].timestamp]_vars

\* a query with limit 1 has returned the oldest entry of a log that holds a
\* newer entry satisfying the same criteria
C25_PageTakenOldestFirst ==
    /\ query_last.query # <<>>
    /\ query_last.call = audit_calls
    /\ query_last.query[1].limit = <<1>>
    /\ query_last.query[1].offset = <<>>
    /\ Len(audit_log) >= 2
    /\ query_last.results = <<audit_log[1]>>
    /\ \E i \in 2..Len(audit_log) :
          /\ matches_query(audit_log[i], query_last.query[1])
          /\ audit_log[i].timestamp > audit_log[1].timestamp

(***************************************************************************)
(* Claims about chain-provider calls and locks                             *)
(***************************************************************************)
\* this step of task t awaits the chain provider: the block number, block and
\* transaction lookups of detect_flash_loan_attack, or the block number
\* lookup of record_price_data
ProviderCallStep(t) ==
    /\ oracle_tasks[t].op = "validate_price"
    /\ oracle_tasks[t].pc \in {"flash_loan", "record"}
    /\ oracle_tasks'[t] # oracle_tasks[t]

\* task t holds a guard of one of the validator's locks
HoldsGuard(t) == \E l \in LockNames : t \in oracle_locks[l].readers

\* C26 as stated: no call of the chain provider is made by an operation that
\* holds one of the internal reader-writer locks.
C26_Original ==
    [][\A t \in Tasks : ProviderCallStep(t) => ~HoldsGuard(t)]_vars

\* C26, the part that holds for validate_price: the only guard held across
\* its provider calls is the read guard on oracle_configs.
C26_OnlyConfigsReadHeld ==
    [][\A t \in Tasks : ProviderCallStep(t) =>
          \A l \in LockNames \ {"oracle_configs"} :
              t \notin oracle_locks[l].readers]_vars

\* a validate_price call is about to ask the provider for the block number
\* and holds its read guard on oracle_configs
C26_ProviderCalledUnderGuard ==
    \E t \in Tasks :
        /\ At(t, "validate_price", "flash_loan")
        /\ t \in oracle_locks["oracle_configs"].readers

(***************************************************************************)
(* Claims about analysis while the chain provider is down                  *)
(***************************************************************************)
\* this step is an assess_transaction_risk call
TransactionAssessStep ==
    risk_calls' = risk_calls + 1 /\ risk_last'.kind = "transaction"

\* C28 as stated: when the provider call of a transaction analysis fails, the
\* analysis still returns an assessment, and its confidence is lower than the
\* confidence of an assessment made with the provider available.
C28_Original ==
    [][(TransactionAssessStep /\ ~risk_last'.provider_ok) =>
          /\ risk_last'.ok
          /\ risk_last'.confidence < AssessmentConfidence]_vars

\* C28, what the code does: when the provider call fails the analysis returns
\* the error and stores no assessment; when the provider answers, the
\* assessment has confidence 0.85 whatever the data it was made from.
C28_FailsOutright ==
    [][TransactionAssessStep =>
          IF risk_last'.provider_ok
          THEN /\ risk_last'.ok
               /\ risk_last'.confidence = AssessmentConfidence
               /\ historical_assessments' # historical_assessments
                     \/ Len(historical_assessments) = AssessmentHistoryCapacity
          ELSE /\ ~risk_last'.ok
               /\ historical_assessments' = historical_assessments]_vars

\* a transaction analysis has failed because the provider did not answer
C28_AnalysisFailed ==
    /\ risk_last.kind = "transaction"
    /\ ~risk_last.provider_ok
    /\ ~risk_last.ok

(***************************************************************************)
(* Claims about references to unregistered oracles and protocols           *)
(***************************************************************************)
\* the call of this step names a protocol address that is not registered
TargetsUnregistered ==
    /\ rate_last'.to # <<>>
    /\ rate_last'.to[1].kind = "address"
    /\ rate_last'.to[1].at \notin DOMAIN protocol_configs

\* C30 as stated, for validate_protocol_interaction: a call that names an
\* unregistered protocol is not allowed and leaves the rate-limit state as it
\* was.
C30_Original ==
    [][(RateValidateStep /\ TargetsUnregistered) =>
          /\ ~rate_last'.allowed
          /\ rate_limiter' = rate_limiter]_vars

\* C30, the part that holds for validate_protocol_interaction: a call that
\* names an unregistered protocol leaves the rate-limit state as it was.
C30_UnregisteredProtocolTouchesNothing ==
    [][(RateValidateStep /\ TargetsUnregistered) =>
          /\ rate_limiter' = rate_limiter
          /\ protocol_configs' = protocol_configs]_vars

\* C30, the part that holds for validate_price: a call that names an
\* unregistered oracle returns the configuration error and leaves the
\* histories and breakers as they were.
C30_UnregisteredOracleFailsFast ==
    [][(\E o \in Oracles : OracleValidateStep(o) /\ o \notin DOMAIN oracle_configs) =>
          /\ oracle_last'.result = "config_error"
          /\ price_history' = price_history
          /\ circuit_breakers' = circuit_breakers
          /\ reference_prices' = reference_prices]_vars

\* a transaction sent to an unregistered protocol address has been allowed
C30_UnregisteredAllowed ==
    /\ rate_last.to # <<>>
    /\ rate_last.to[1].kind = "address"
    /\ rate_last.to[1].at \notin DOMAIN protocol_configs
    /\ rate_last.allowed


(***************************************************************************)
(* C27: escalation of a refused transaction                                *)
(***************************************************************************)
\* the last call of t was an analysis that answered should_proceed = false
Refused(t) ==
    /\ manager_tasks[t].result.kind = "analysis"
    /\ ~manager_tasks[t].result.should_proceed

\* a step of a call of analyze_transaction
ManagerAnalyzeStep ==
    \E t \in Tasks : /\ manager_tasks[t].op = "analyze_transaction"
                     /\ manager_tasks'[t] # manager_tasks[t]

C27_AnalyzeLeavesDispatcherAlone ==
    [][ManagerAnalyzeStep => UNCHANGED emergency_vars]_vars

\* a transaction was refused and no alert is active
C27_RefusedWithoutAlert ==
    \E t \in Tasks : /\ Refused(t)
                     /\ manager_tasks[t].result.threats = 3
                     /\ DOMAIN active_alerts = {}

\* with the default tolerance no transaction of ManagerRequests is refused
C27_DefaultToleranceNeverRefuses ==
    manager_config.risk_tolerance = DefaultRiskTolerance =>
        \A t \in Tasks : ~Refused(t)

(***************************************************************************)
(* C29: generate_security_report and the manager locks                     *)
(***************************************************************************)
InReport(t) == manager_tasks[t].op = "generate_security_report"

ManagerIdle(t) == manager_tasks[t].op = "idle"

\* C29: every call of generate_security_report returns, whatever calls of
\* analyze_transaction and handle_emergency run beside it.
C29_Original == \A t \in Tasks : InReport(t) ~> ManagerIdle(t)

\* no call ever waits for the configuration or the threat-level lock
C29_ConfigAndThreatLevelNeverWait ==
    /\ manager_locks["config"].queue = <<>>
    /\ manager_locks["threat_level"].queue = <<>>

\* the report holds `metrics` and waits to read security_metrics again behind
\* the writer of u, which waits for `metrics` to be dropped
ReportBehindWriter(t, u) ==
    /\ ManagerAt(t, "generate_security_report", "recommendations")
    /\ t \in manager_locks["security_metrics"].readers
    /\ manager_locks["security_metrics"].queue =
          << [task |-> u, mode |-> "write"], [task |-> t, mode |-> "read"] >>

C29_ReportBehindAnalyze ==
    \E t, u \in Tasks : /\ ReportBehindWriter(t, u)
                        /\ manager_tasks[u].op = "analyze_transaction"

C29_ReportBehindEmergency ==
    \E t, u \in Tasks : /\ ReportBehindWriter(t, u)
                        /\ manager_tasks[u].op = "handle_emergency"

\* once the report waits behind a writer, neither call moves again
C29_Stuck ==
    [][\A t, u \in Tasks : ReportBehindWriter(t, u) =>
           UNCHANGED <<manager_tasks, manager_locks>>]_vars


(***************************************************************************)
(* Claims about the answers of validate_protocol_interaction               *)
(***************************************************************************)
\* C32: every rejection by validate_protocol_interaction returns a reason that
\* names the failed check, and a value of 150 against a cap of 100 returns
\* not-allowed with the reason "value exceeds limit".
C32_Original ==
    [][(RateValidateStep /\ ~rate_last'.allowed) =>
          /\ ReturnedToCaller(rate_last').reason # <<>>
          /\ (/\ TargetsRegistered
              /\ ~protocol_configs[rate_last'.to[1].at].emergency_pause
              /\ protocol_configs[rate_last'.to[1].at].max_transaction_value = 100
              /\ rate_last'.value = 150)
             => ReturnedToCaller(rate_last').reason = <<"value exceeds limit">>]_vars

\* C32, the part that holds: a value of 150 against a cap of 100 on a protocol
\* that is not paused is answered not-allowed, by the value check
C32_OverCapNotAllowed ==
    [][(/\ RateValidateStep
        /\ TargetsRegistered
        /\ ~protocol_configs[rate_last'.to[1].at].emergency_pause
        /\ protocol_configs[rate_last'.to[1].at].max_transaction_value = 100
        /\ rate_last'.value = 150)
       => /\ ReturnedToCaller(rate_last') = [allowed |-> FALSE, reason |-> <<>>]
          /\ rate_last'.blocked_by = "value"]_vars

\* a value of 150 was rejected against a cap of 100 and the caller received
\* the boolean alone
C32_RejectedWithoutReason ==
    /\ rate_last.value = 150
    /\ rate_last.blocked_by = "value"
    /\ rate_last.to # <<>>
    /\ rate_last.to[1].at \in DOMAIN protocol_configs
    /\ protocol_configs[rate_last.to[1].at].max_transaction_value = 100
    /\ ReturnedToCaller(rate_last) = [allowed |-> FALSE, reason |-> <<>>]

\* the call of this step fails the pause, value-cap or allow-list check of its
\* protocol
FailsEarlyCheck ==
    /\ TargetsRegistered
    /\ LET config == protocol_configs[rate_last'.to[1].at]
       IN  \/ config.emergency_pause
           \/ rate_last'.value > config.max_transaction_value
           \/ FunctionBlocked(config, rate_last'.data)

\* C38: a call rejected because the protocol is paused, the value exceeds the
\* cap or the function is outside the allow-list is not allowed and leaves the
\* rate-limit state as it was: no time, no value, no cooldown is recorded.
C38_EarlyRejectionNotCounted ==
    [][(RateValidateStep /\ FailsEarlyCheck) =>
          /\ ~rate_last'.allowed
          /\ rate_limiter'.transaction_counts = rate_limiter.transaction_counts
          /\ rate_limiter'.value_sums = rate_limiter.value_sums
          /\ rate_limiter'.cooldowns = rate_limiter.cooldowns]_vars

\* a sender with one recorded transaction was rejected by the allow-list of a
\* protocol whose rate check would have recorded the call
C38_Witness ==
    /\ rate_last.blocked_by = "function"
    /\ rate_last.from \in DOMAIN rate_limiter.transaction_counts
    /\ Len(rate_limiter.transaction_counts[rate_last.from]) = 1
    /\ ~InCooldown(rate_limiter, rate_last.from, rate_now)
    /\ rate_last.value = 50


(***************************************************************************)
(* Claims about re-registration, corroboration and staleness of an oracle  *)
(***************************************************************************)
\* the step is a register_oracle call
OracleRegisterStep ==
    /\ oracle_calls' = oracle_calls + 1
    /\ oracle_last' = NoOracleCall

\* C33: register_oracle for a source that is already registered neither
\* resets its breaker nor discards its accepted-price history.
C33_Original ==
    [][OracleRegisterStep =>
          \A o \in DOMAIN oracle_configs :
              /\ circuit_breakers'[o] = circuit_breakers[o]
              /\ price_history'[o] = price_history[o]]_vars

\* C33, the part that holds: every registered source has exactly one breaker
\* and one history, and only a validate_price call for the source or a
\* register_oracle call changes its breaker
C33_OneBreakerChangedByCalls ==
    [][/\ DOMAIN circuit_breakers' = DOMAIN oracle_configs'
       /\ DOMAIN price_history' = DOMAIN oracle_configs'
       /\ \A o \in DOMAIN oracle_configs :
             circuit_breakers'[o] # circuit_breakers[o] =>
                 OracleValidateStep(o) \/ OracleRegisterStep]_vars

\* the breaker half of C33 alone, which the code violates: no register_oracle
\* call finds a Triggered breaker and a history and leaves the breaker Armed
\* and the history empty
C33_NoRearmByRegistration ==
    [][~(/\ OracleRegisterStep
         /\ \E o \in DOMAIN oracle_configs :
               /\ circuit_breakers[o].triggered
               /\ ~circuit_breakers'[o].triggered
               /\ price_history[o] # <<>>
               /\ price_history'[o] = <<>>)]_vars

\* the number of checks that failed in a list of validations
FailedChecks(validations) ==
    Cardinality({ i \in 1..Len(validations) : ~validations[i] })

\* the step is a validate_price call that trips the breaker of o
TripStep(o) ==
    /\ OracleValidateStep(o)
    /\ o \in DOMAIN circuit_breakers
    /\ oracle_last'.result = "rejected"
    /\ circuit_breakers'[o].triggered

\* C34: validate_price trips a breaker only when at least two of the five
\* checks failed; a rejection by a single failing check leaves it Armed.
C34_Original ==
    [][\A o \in Oracles :
          TripStep(o) => FailedChecks(oracle_last'.validations) >= 2]_vars

\* C34, what the code does: a rejection trips the breaker exactly when the
\* price is more than 20% away from the median of the references, however
\* many checks failed
C34_TripIffFarFromMedian ==
    [][\A o \in Oracles :
          (OracleValidateStep(o) /\ oracle_last'.result = "rejected") =>
             LET refs == get_reference_prices(reference_prices, o, oracle_now)
                 away == calculate_deviation(oracle_last'.price,
                                             aggregate_median(refs))
             IN  circuit_breakers'[o].triggered <=> RatGT(away, <<1, 5>>)]_vars

\* the breaker was tripped by a rejection in which the deviation check alone
\* failed
C34_TrippedByOneCheck ==
    /\ oracle_last.result = "rejected"
    /\ oracle_last.validations = <<FALSE, TRUE, TRUE, TRUE, TRUE>>
    /\ circuit_breakers[oracle_last.oracle].triggered

\* a rejection by staleness alone, at the median price, left the breaker Armed
C34_StaleAloneArmed ==
    /\ oracle_last.result = "rejected"
    /\ oracle_last.validations = <<TRUE, FALSE, TRUE, TRUE, TRUE>>
    /\ oracle_last.price = 2000
    /\ ~circuit_breakers[oracle_last.oracle].triggered

\* more than max_staleness has elapsed since the last accepted observation of
\* the registered source o
Stale(o) ==
    /\ o \in DOMAIN oracle_configs
    /\ o \in DOMAIN price_history
    /\ price_history[o] # <<>>
    /\ oracle_now - Last(price_history[o]).timestamp > oracle_configs[o].max_staleness

\* C36 as stated: once a source is stale, every later validate_price call for
\* it returns false, until the source is registered again.
C36_Original ==
    [][\A o \in Oracles :
          Stale(o) =>
             /\ OracleValidateStep(o) => oracle_last'.result \in {"rejected", "breaker"}
             /\ Stale(o)' \/ OracleRegisterStep]_vars

\* C36: once more than max_staleness has elapsed since the last accepted
\* observation of a registered source, no later validate_price call for it is
\* accepted (each returns false or the chain provider's error) and none
\* appends to its history, so the source stays stale until it is registered
\* again.
C36_StaleNeverAccepted ==
    [][\A o \in Oracles :
          Stale(o) =>
             /\ OracleValidateStep(o) =>
                   /\ oracle_last'.result \in {"rejected", "breaker", "error"}
                   /\ price_history' = price_history
             /\ Stale(o)' \/ OracleRegisterStep]_vars

\* a stale source offered the median price was rejected by the staleness
\* check alone
C36_Witness ==
    /\ oracle_last.oracle \in Oracles
    /\ Stale(oracle_last.oracle)
    /\ oracle_last.result = "rejected"
    /\ oracle_last.validations = <<TRUE, FALSE, TRUE, TRUE, TRUE>>
    /\ oracle_calls >= 2


(***************************************************************************)
(* Claims about what every trigger_alert call leaves behind                *)
(***************************************************************************)
\* the response records of a history that carry the id of the alert
RecordsOf(history, id) ==
    { i \in 1..Len(history) : history[i].alert_id = id }

\* C35: every trigger_alert call, whatever the alert level, whether or not
\* auto-response is enabled and whether or not an automatic action failed,
\* stores the alert in the active set, notifies every configured emergency
\* contact once, in the order of the list, and appends exactly one response
\* record for the alert.
C35_AlwaysStoredNotifiedLogged ==
    [][TriggerAlertStep =>
         LET alert == emergency_last'.alert[1]
             sent == emergency_last'.notified
         IN  /\ alert.id \in DOMAIN active_alerts'
             /\ active_alerts'[alert.id] = alert
             /\ Len(sent) = Len(emergency_contacts)
             /\ \A i \in 1..Len(sent) :
                   /\ sent[i].contact = emergency_contacts[i].name
                   /\ sent[i].alert_id = alert.id
             /\ Len(response_history') = Len(response_history) + 1
             /\ response_history'[Len(response_history')].alert_id = alert.id
             /\ Cardinality(RecordsOf(response_history', alert.id))
                   = Cardinality(RecordsOf(response_history, alert.id)) + 1
             /\ SubSeq(response_history', 1, Len(response_history))
                   = response_history]_vars

\* a Warning alert was triggered with a contact configured: it was stored,
\* the contact was notified and a record was appended
C35_WitnessLowLevel ==
    /\ emergency_last.result = "ok"
    /\ emergency_last.alert[1].level = "Warning"
    /\ emergency_contacts # <<>>
    /\ Len(emergency_last.notified) = Len(emergency_contacts)
    /\ emergency_last.alert[1].id \in DOMAIN active_alerts
    /\ response_history # <<>>

\* the same after an automatic action failed
C35_WitnessFailedAction ==
    /\ emergency_last.result = "ok"
    /\ \E i \in 1..Len(emergency_last.attempted) : ~emergency_last.attempted[i].ok
    /\ emergency_contacts # <<>>
    /\ Len(emergency_last.notified) = Len(emergency_contacts)
    /\ emergency_last.alert[1].id \in DOMAIN active_alerts
    /\ response_history # <<>>


(***************************************************************************)
(* Claims about the score, the status and the threat level of the manager  *)
(***************************************************************************)
\* a score, its status and its verdict agree, for tolerance tol in hundredths
Consistent(score, status, proceed, tol) ==
    /\ score[2] > 0
    /\ 0 <= score[1]
    /\ score[1] <= score[2]
    /\ status = (IF 10 * score[1] < 3 * score[2] THEN "Safe"
                 ELSE IF 10 * score[1] < 6 * score[2] THEN "Caution"
                 ELSE IF 10 * score[1] < 8 * score[2] THEN "Warning"
                 ELSE "Danger")
    /\ proceed <=> (100 * score[1] < tol * score[2])
    /\ (tol = DefaultRiskTolerance /\ status = "Danger") => ~proceed

\* C37: the risk_score of analyze_transaction lies in [0,1], security_status
\* is its step function (< 0.3 Safe, < 0.6 Caution, < 0.8 Warning, otherwise
\* Danger), should_proceed holds iff risk_score < risk_tolerance, so with the
\* default tolerance no Danger result may proceed, and one more detected
\* threat never lowers the score.
C37_ScoreStatusVerdict ==
    [][/\ Consistent(verdict'.risk_score, verdict'.security_status,
                     verdict'.should_proceed, manager_config.risk_tolerance)
       /\ (/\ verdict.scored
           /\ verdict'.overall = verdict.overall
           /\ verdict'.mev >= verdict.mev
           /\ verdict'.defi >= verdict.defi)
          => verdict'.risk_score[1] * verdict.risk_score[2]
                >= verdict.risk_score[1] * verdict'.risk_score[2]]_vars

\* the same for the results the manager returns to its callers
C37_InAnalysisResults ==
    \A t \in Tasks :
        manager_tasks[t].result.kind = "analysis" =>
            Consistent(manager_tasks[t].result.risk_score,
                       manager_tasks[t].result.security_status,
                       manager_tasks[t].result.should_proceed,
                       manager_config.risk_tolerance)

\* nine threats and a risk-engine score of 1 were clamped to 1.0: the status
\* is Danger and, with the default tolerance, the transaction may not proceed
C37_WitnessDanger ==
    /\ verdict.scored
    /\ verdict.mev = MaxMevThreats
    /\ verdict.defi = MaxDefiThreats
    /\ verdict.risk_score = <<1, 1>>
    /\ verdict.security_status = "Danger"
    /\ manager_config.risk_tolerance = DefaultRiskTolerance
    /\ ~verdict.should_proceed

\* a score equal to the tolerance may not proceed
C37_WitnessAtTolerance ==
    /\ verdict.scored
    /\ 100 * verdict.risk_score[1]
          = manager_config.risk_tolerance * verdict.risk_score[2]
    /\ ~verdict.should_proceed

\* the step in which task t, in a call of op, is granted threat_level
ThreatLevelStep(t, op) ==
    /\ ManagerAt(t, op, "threat_level")
    /\ manager_tasks'[t] # manager_tasks[t]

\* C39: the threat level is last-writer-wins.  handle_emergency sets it to
\* Critical, analyze_transaction overwrites it with the level of its score,
\* nothing else changes it, and get_security_status answers from the level as
\* it stands, whether or not alerts are still active.
C39_LastWriterWins ==
    [][/\ \A t \in Tasks :
             /\ ThreatLevelStep(t, "handle_emergency") => threat_level' = "Critical"
             /\ ThreatLevelStep(t, "analyze_transaction") =>
                   threat_level' =
                      (LET score == manager_tasks[t].risk_score
                       IN  IF 10 * score[1] < 3 * score[2] THEN "Low"
                           ELSE IF 10 * score[1] < 6 * score[2] THEN "Medium"
                           ELSE IF 10 * score[1] < 8 * score[2] THEN "High"
                           ELSE "Critical")
             /\ ThreatLevelStep(t, "get_security_status") =>
                   manager_tasks'[t].result.security_status =
                      (CASE threat_level = "Low" -> "Safe"
                         [] threat_level = "Medium" -> "Caution"
                         [] threat_level = "High" -> "Warning"
                         [] OTHER -> "Danger")
       /\ threat_level' # threat_level =>
             \E t \in Tasks : \/ ThreatLevelStep(t, "handle_emergency")
                              \/ ThreatLevelStep(t, "analyze_transaction")]_vars

\* an alert is still active, a later analysis of a harmless transaction has
\* lowered the level and get_security_status answers Safe
C39_Witness ==
    /\ DOMAIN active_alerts # {}
    /\ threat_level = "Low"
    /\ security_metrics.emergency_responses = 1
    /\ security_metrics.transactions_analyzed = 1
    /\ \E t \in Tasks : /\ manager_tasks[t].result.kind = "status"
                        /\ manager_tasks[t].result.security_status = "Safe"

(***************************************************************************)
(* Claims about the audit indices and the log                              *)
(***************************************************************************)

\* the ids of the entries the log holds
LoggedIds == { audit_log[i].id : i \in 1..Len(audit_log) }

\* the ids listed under an index key
ListedUnder(key) ==
    IF key \in DOMAIN indexed_entries
    THEN { indexed_entries[key][i] : i \in 1..Len(indexed_entries[key]) }
    ELSE {}

\* C40 (second half): every entry in the audit log is listed under its entry
\* type in the indices.
C40_LoggedEntriesListedUnderType ==
    \A i \in 1..Len(audit_log) :
        audit_log[i].id \in ListedUnder(<<"type", audit_log[i].entry_type>>)

\* C40: the audit indices mirror the log: every id listed in the actor,
\* contract and entry-type indices belongs to an entry currently in the
\* audit log, and every entry in the log is listed under its entry type.
C40_Original ==
    /\ \A key \in DOMAIN indexed_entries : ListedUnder(key) \subseteq LoggedIds
    /\ C40_LoggedEntriesListedUnderType

\* retention has evicted an entry whose id the indices still list, while
\* the entries that remain are all listed under their types
C40_EvictedStillListed ==
    /\ audit_log # <<>>
    /\ \E key \in DOMAIN indexed_entries : ~(ListedUnder(key) \subseteq LoggedIds)
    /\ C40_LoggedEntriesListedUnderType

================================================================================
